---- MODULE Spec2Model ----
(***************************************************************************)
(* Model of the reqmd request pipeline:                                    *)
(*   - reqmd_core::Factory (registration of default providers and factory  *)
(*     processors, and build_requests, followed statement by statement);   *)
(*   - reqmd_ast::HttpData::try_collect (the block extractor that walks    *)
(*     the direct children of the markdown root).                          *)
(* Option<T> is modelled as a sequence of length 0 (None) or 1 (Some).     *)
(***************************************************************************)
EXTENDS Integers, Sequences, FiniteSets, TLC

\* ------------------------------------------------------------------ bounds
MaxProviders == 2
MaxProcessors == 2
MaxDescriptors == 2
MaxChildren == 4
MaxParams == 2
MaxHeaderLines == 1
MaxKeys == 2
MaxOffset == 3
MaxRequests == 2
MaxLine == 3
MaxText == 5

VARIABLES
    api,                \* which entry point this run exercises
    env,                \* the process environment read by EnvProvider
    default_providers,  \* Factory.default_providers
    factory_processors, \* Factory.factory_processors
    file,               \* the File handed to build_requests (Option)
    pc,                 \* position inside build_requests
    defaults,           \* local `defaults` (the clone of the document's)
    init,               \* local `init` (the RequestFactory skeleton)
    requests,           \* local `requests`
    data,               \* loop variable `data` (index into the document)
    request,            \* local `request` (Option)
    pidx,               \* position in the provider / processor loop
    result,             \* what build_requests returned
    calls,              \* history: stages invoked by the current build
    handed,             \* history: defaults each provider received/left
    children,           \* ctx.root.children
    iter,               \* position of the peekable iterator
    prior_heading,      \* local `prior_heading` (Option of child index)
    data_set,           \* local `data_set`
    origins,            \* history: the children each descriptor was made of
    visited,            \* history: the children the loop took as `child`
    xpc,                \* position inside try_collect
    collected,          \* what try_collect returned
    block,              \* the http block handed to parser::parse, by its parts
    parsed,             \* what http_data returned for it
    root,               \* the root's children as MetaData::try_from sees them
    metadata,           \* what MetaData::try_from returned
    ranges,             \* three Positions A, B, C of one source text
    algebra,            \* what range_between and extend gave for them
    md_requests,        \* an MdRequestList, by the ranges of its requests
    selected,           \* what at_line or Selection::select returned for it
    environ,            \* the process environment as ::std::env::var reads it
    input_str,          \* the string handed to expand_env_vars
    expansion,          \* what expand_env_vars returned for it
    app,                \* the factory configuration and process environment
                        \* two concurrent builds run with
    given,              \* history: the File as it was handed to both builds
    shared,             \* the File both builds hold a reference to
    builds,             \* the locals of build_requests, per thread
    overlap,            \* history: a build took a step while the other was
                        \* between its entry and its return
    points,             \* two Points p and q
    compared            \* what `p == q` and `p.cmp(&q)` gave for them

fvars == <<env, default_providers, factory_processors, file, pc, defaults,
           init, requests, data, request, pidx, result, calls, handed>>
xvars == <<children, iter, prior_heading, data_set, origins, visited, xpc, collected>>
pvars == <<block, parsed>>
mvars == <<root, metadata>>
avars == <<ranges, algebra>>
svars == <<md_requests, selected>>
evars == <<environ, input_str, expansion>>
tvars == <<app, given, shared, builds, overlap>>
qvars == <<points, compared>>
uvars == <<svars, evars, tvars, qvars>>
vars == <<api, fvars, xvars, pvars, mvars, avars, uvars>>

\* ------------------------------------------------------------ basic values
NoneOpt == <<>>
Some(x) == <<x>>

KV(k, v) == [key |-> k, value |-> v]

BodyNone == [kind |-> "None", text |-> ""]
BodyText(t) == [kind |-> "Text", text |-> t]

\* str::eq_ignore_ascii_case, on the keys the model uses
Lower(s) ==
    CASE s = "X-Test-Default" -> "x-test-default"
      [] s = "X-Test-Title" -> "x-test-title"
      [] s = "Accept" -> "accept"
      [] s = "Host" -> "host"
      [] s = "YAML" -> "yaml"
      [] s = "Send-As-Json" -> "send-as-json"
      [] OTHER -> s

EqIgnoreAsciiCase(a, b) == Lower(a) = Lower(b)

RECURSIVE FirstMatch(_, _, _)
FirstMatch(lines, key, caseless) ==
    IF lines = <<>> THEN NoneOpt
    ELSE IF (IF caseless THEN EqIgnoreAsciiCase(Head(lines).key, key)
                         ELSE Head(lines).key = key)
         THEN Some(Head(lines).value)
         ELSE FirstMatch(Tail(lines), key, caseless)

HeadersFirst(headers, key) == FirstMatch(headers, key, TRUE)
QueryFirst(query, key) == FirstMatch(query, key, FALSE)

\* the new lines put in front of the existing ones
HeadersInsertManyFront(headers, lines) == lines \o headers

\* Headers::insert_many
HeadersInsertMany(headers, lines) == headers \o lines

\* QueryString::insert_many
QueryInsertMany(query, params) == query \o params

\* http::Address::parse on the address strings the model uses
AddressParse(s) ==
    CASE s = "http://localhost" -> Some([scheme |-> "http", host |-> "localhost", port |-> 0])
      [] s = "https://api.example.com" -> Some([scheme |-> "https", host |-> "api.example.com", port |-> 0])
      [] s = "https://env.example.com" -> Some([scheme |-> "https", host |-> "env.example.com", port |-> 0])
      [] s = "https://lmfao.com:6767" -> Some([scheme |-> "https", host |-> "lmfao.com", port |-> 6767])
      [] OTHER -> NoneOpt

AddressDefault == [scheme |-> "http", host |-> "localhost", port |-> 0]

AddressStringDefault == [address |-> AddressDefault, data |-> ""]

AddressStringFromStr(s) ==
    IF AddressParse(s) = NoneOpt THEN NoneOpt
    ELSE Some([address |-> AddressParse(s)[1], data |-> s])

\* --------------------------------------------------------- document values
Point(l, c, o) == [line |-> l, column |-> c, offset |-> o]
Position(s, e) == [start |-> s, end |-> e]

BodyData(content, lang, meta, position) ==
    [content |-> content, lang |-> lang, meta |-> meta, position |-> position]

\* source range of the i-th descriptor of a document
PositionAt(i) == Position(Point(10 * i, 1, 100 * i), Point(10 * i + 5, 4, 100 * i + 50))

DescriptorKinds == {"sample", "widget", "broken"}

\* ast::HttpData values the model builds documents from
HttpData(kind, i) ==
    CASE kind = "sample" ->
           [title |-> Some("Sample Request"),
            description |-> Some("This is how you make a sample request for resources."),
            method |-> "Get", path |-> "/api/v1/resources",
            query |-> <<>>,
            headers |-> <<KV("accept", "application/json")>>,
            body |-> BodyData(BodyNone, NoneOpt, NoneOpt, NoneOpt),
            position |-> PositionAt(i)]
      [] kind = "widget" ->
           [title |-> NoneOpt, description |-> NoneOpt,
            method |-> "Post", path |-> "/widgets",
            query |-> <<KV("page", "2")>>,
            headers |-> <<KV("x-test-default", "own"), KV("Host", "https://lmfao.com:6767")>>,
            body |-> BodyData(BodyText("name: XFox"), Some("yaml"), Some("http-body send-as-json"),
                             Some(PositionAt(i))),
            position |-> PositionAt(i)]
      [] kind = "templated" ->
           [title |-> NoneOpt, description |-> NoneOpt,
            method |-> "Post", path |-> "/greetings",
            query |-> <<>>,
            headers |-> <<>>,
            body |-> BodyData(BodyText("name: $USER"), Some("yaml"), Some("http-body send-as-json"),
                             Some(PositionAt(i))),
            position |-> PositionAt(i)]
      [] OTHER ->
           [title |-> Some("Broken"), description |-> NoneOpt,
            method |-> "Put", path |-> "/broken",
            query |-> <<>>,
            headers |-> <<KV("Accept", "text/yaml")>>,
            body |-> BodyData(BodyText("name: ["), Some("YAML"), Some("Send-As-Json"), Some(PositionAt(i))),
            position |-> PositionAt(i)]

GlobalHttpDefaultsDefault ==
    [server |-> AddressStringDefault, headers |-> <<>>, query |-> <<>>]

GlobalHttpDefaultsSet ==
    { GlobalHttpDefaultsDefault,
      [server |-> AddressStringFromStr("https://api.example.com")[1],
       headers |-> <<KV("Accept", "text/plain")>>,
       query |-> <<KV("page", "1")>>] }

SeqsUpTo(S, n) == UNION { [1..k -> S] : k \in 0..n }

File(http, kinds) ==
    [document |->
        [meta |-> [http |-> http],
         requests |-> [i \in 1..Len(kinds) |-> HttpData(kinds[i], i)]]]

Files == { File(g, ks) : g \in GlobalHttpDefaultsSet, ks \in SeqsUpTo(DescriptorKinds, MaxDescriptors) }

\* one environment variable: its prefix, the part after the prefix, its value
EnvVar(prefix, kind, name, value) ==
    [prefix |-> prefix, kind |-> kind, name |-> name, value |-> value]

EnvSet ==
    { <<>>,
      <<EnvVar("REQMD_", "HEADER_", "Accept", "text/env"),
        EnvVar("OTHER_", "HEADER_", "Accept", "text/other"),
        EnvVar("REQMD_", "QUERY_", "page", "9"),
        EnvVar("REQMD_", "SERVER", "", "https://env.example.com")>>,
      <<EnvVar("REQMD_", "SERVER", "", "not an address")>> }

\* ------------------------------------------------------ http block texts
\* an http block by its parts: the method word, the path, the query
\* parameters as written (key text, value text), how consecutive parameters
\* are separated, whether the query starts on its own indented line, and the
\* lines after the request line
Param(k, v) == [key |-> k, value |-> v]

ParamSet ==
    { Param(k, v) : k \in {<<"a">>, <<"b">>},
                    v \in {<<"1">>, <<"a", "\\", "&", "b">>, <<"1", "#">>} }

Styles == {"inline", "amp_after_newline", "amp_before_newline"}

GoodHeaderLine == <<"X", ":", " ", "1">>
BadHeaderLine == <<"X", " ", "1">>
ColonHeaderLine == <<"X", ":", " ", "a", ":", " ", "b">>

Block(method, params, style, qline, lines) ==
    [method |-> method, path |-> <<"/", "w">>, params |-> params, style |-> style,
     qline |-> qline, lines |-> lines]

BlockDefault == Block(<<"G", "E", "T">>, <<>>, "inline", FALSE, <<>>)

Blocks ==
    { Block(m, ps, st, ql, ls) :
        m \in {<<"G", "E", "T">>, <<"F", "E", "T", "C", "H">>},
        ps \in SeqsUpTo(ParamSet, MaxParams),
        st \in Styles,
        ql \in BOOLEAN,
        ls \in SeqsUpTo({GoodHeaderLine, BadHeaderLine, ColonHeaderLine}, MaxHeaderLines) }

Indent == <<" ", " ">>

Separator(style) ==
    CASE style = "inline" -> <<"&">>
      [] style = "amp_after_newline" -> <<"\n">> \o Indent \o <<"&">>
      [] OTHER -> <<"&", "\n">> \o Indent

RECURSIVE RenderParams(_, _)
RenderParams(params, style) ==
    IF params = <<>> THEN <<>>
    ELSE Head(params).key \o <<"=">> \o Head(params).value
           \o (IF Tail(params) = <<>> THEN <<>>
               ELSE Separator(style) \o RenderParams(Tail(params), style))

RECURSIVE RenderLines(_)
RenderLines(lines) ==
    IF lines = <<>> THEN <<>>
    ELSE <<"\n">> \o Head(lines) \o RenderLines(Tail(lines))

\* the text of the block
Render(b) ==
    b.method \o <<" ">> \o b.path
      \o (IF b.params = <<>> THEN <<>>
          ELSE (IF b.qline THEN <<"\n">> \o Indent ELSE <<>>)
                 \o <<"?">> \o RenderParams(b.params, b.style))
      \o RenderLines(b.lines)

\* ------------------------------------------------------------ front matter
\* a top-level entry of the front-matter mapping: its key and its value, a
\* string (kind "str") or a mapping (kind "map") of sub-entries
SubEntry(key, str, pairs) == [key |-> key, str |-> str, pairs |-> pairs]
Entry(key, kind, str, sub) == [key |-> key, kind |-> kind, str |-> str, sub |-> sub]

HttpEntries ==
    <<SubEntry("server", "https://api.example.com", <<>>),
      SubEntry("headers", "", <<KV("Accept", "text/plain")>>),
      SubEntry("query", "", <<KV("page", "1")>>)>>

EntrySet ==
    { Entry("title", "str", "My Title", <<>>),
      Entry("title", "map", "", <<>>),
      Entry("description", "str", "About", <<>>),
      Entry("http", "map", "", HttpEntries),
      Entry("http", "map", "", <<SubEntry("bogus", "1", <<>>)>>),
      Entry("extra", "str", "1", <<>>) }

\* mappings written with no key twice
FrontMatters ==
    { es \in SeqsUpTo(EntrySet, MaxKeys) :
        \A i, j \in 1..Len(es) : i # j => es[i].key # es[j].key }

\* a child of the root: a front-matter (Yaml) node or some other node
RootNode(type, yaml, position) == [type |-> type, yaml |-> yaml, position |-> position]

RootsSet ==
    {<<>>, <<RootNode("Heading", <<>>, Some(PositionAt(1)))>>}
      \cup { <<RootNode("Yaml", es, p)>> : es \in FrontMatters, p \in {NoneOpt, Some(PositionAt(1))} }
      \cup { <<RootNode("Heading", <<>>, Some(PositionAt(1))),
               RootNode("Yaml", es, Some(PositionAt(2)))>> : es \in FrontMatters }

\* ------------------------------------------------------ source positions
\* the Point at a byte offset of a source text whose lines are two bytes long
PointOf(o) == Point((o \div 2) + 1, (o % 2) + 1, o)

\* the Positions of nodes of that text: start <= end
PositionsSet ==
    { Position(PointOf(p[1]), PointOf(p[2])) :
        p \in { q \in (0..MaxOffset) \X (0..MaxOffset) : q[1] <= q[2] } }

Ranges(a, b, c) == [A |-> a, B |-> b, C |-> c]

\* ----------------------------------------------------------- request lists
\* a source range given by its first and last line
LinePosition(a, b) == Position(Point(a, 1, 10 * (a - 1)), Point(b, 1, 10 * b))

\* an MdRequest, by the range of its descriptor
Listed(position) == [data |-> [position |-> position]]

LinePositions ==
    { LinePosition(q[1], q[2]) :
        q \in { r \in (1..MaxLine) \X (1..MaxLine) : r[1] <= r[2] } }

Lists ==
    { [i \in 1..Len(ps) |-> Listed(ps[i])] : ps \in SeqsUpTo(LinePositions, MaxRequests) }

\* cli Selection values; Line and Nth hold a NonZeroUsize
Selection(kind, n) == [kind |-> kind, n |-> n]

Selections ==
    { Selection("First", 1), Selection("Last", 1) }
    \cup { Selection("Line", n) : n \in 1..MaxLine }
    \cup { Selection("Nth", n) : n \in 1..(MaxRequests + 1) }

\* ------------------------------------------------------- expansion inputs
\* one variable of the process environment: its name and, as OsString, either
\* valid Unicode ("Ok" and the value) or not ("NotUnicode")
OsVar(name, kind, value) == [name |-> name, kind |-> kind, value |-> value]

Environs ==
    { <<>>,
      <<OsVar(<<"A">>, "Ok", <<"1">>)>>,
      <<OsVar(<<"A">>, "Ok", <<"1">>), OsVar(<<"A", "B">>, "Ok", <<"$", "A">>)>>,
      <<OsVar(<<"A">>, "Ok", <<>>), OsVar(<<"B">>, "NotUnicode", <<>>)>> }

TextChars == {"$", "A", "B", "/"}

Texts == SeqsUpTo(TextChars, MaxText)

\* Points with every combination of two lines, two columns and two offsets
PointsSet == { Point(l, c, o) : l \in 1..2, c \in 1..2, o \in 0..1 }

Pair(p, q) == [p |-> p, q |-> q]

\* ------------------------------------------------- characters and texts
\* a block text is a sequence of one-character strings
Upper == {"A", "B", "C", "D", "E", "F", "G", "H", "I", "J", "K", "L", "M",
          "N", "O", "P", "Q", "R", "S", "T", "U", "V", "W", "X", "Y", "Z"}
Lowers == {"a", "b", "c", "d", "e", "f", "g", "h", "i", "j", "k", "l", "m",
           "n", "o", "p", "q", "r", "s", "t", "u", "v", "w", "x", "y", "z"}
Digits == {"0", "1", "2", "3", "4", "5", "6", "7", "8", "9"}
Alpha == Upper \cup Lowers
Alphanumeric == Alpha \cup Digits

\* where the longest run of characters of `class` starting at i ends
RECURSIVE RunEnd(_, _, _)
RunEnd(input, i, class) ==
    IF i <= Len(input) /\ input[i] \in class THEN RunEnd(input, i + 1, class) ELSE i

\* the characters of the texts of the model that are read character by
\* character: the http block texts the document nodes carry, and the bodies,
\* variable names and values that environment expansion sees
Chars(text) ==
    CASE text = "POST /widgets" ->
           <<"P", "O", "S", "T", " ", "/", "w", "i", "d", "g", "e", "t", "s">>
      [] text = "FETCH /widgets" ->
           <<"F", "E", "T", "C", "H", " ", "/", "w", "i", "d", "g", "e", "t", "s">>
      [] text = "name: $USER" ->
           <<"n", "a", "m", "e", ":", " ", "$", "U", "S", "E", "R">>
      [] text = "name: XFox" ->
           <<"n", "a", "m", "e", ":", " ", "X", "F", "o", "x">>
      [] text = "{ \"name\": \"$USER\" }" ->
           <<"{", " ", "\"", "n", "a", "m", "e", "\"", ":", " ", "\"", "$", "U", "S", "E",
             "R", "\"", " ", "}">>
      [] text = "{ \"name\": \"XFox\" }" ->
           <<"{", " ", "\"", "n", "a", "m", "e", "\"", ":", " ", "\"", "X", "F", "o", "x",
             "\"", " ", "}">>
      [] text = "USER" -> <<"U", "S", "E", "R">>
      [] text = "XFox" -> <<"X", "F", "o", "x">>
      [] text = "REQMD_" -> <<"R", "E", "Q", "M", "D", "_">>
      [] text = "OTHER_" -> <<"O", "T", "H", "E", "R", "_">>
      [] text = "HEADER_" -> <<"H", "E", "A", "D", "E", "R", "_">>
      [] text = "QUERY_" -> <<"Q", "U", "E", "R", "Y", "_">>
      [] text = "SERVER" -> <<"S", "E", "R", "V", "E", "R">>
      [] text = "Accept" -> <<"A", "c", "c", "e", "p", "t">>
      [] text = "page" -> <<"p", "a", "g", "e">>
      [] text = "9" -> <<"9">>
      [] text = "text/env" -> <<"t", "e", "x", "t", "/", "e", "n", "v">>
      [] text = "text/other" -> <<"t", "e", "x", "t", "/", "o", "t", "h", "e", "r">>
      [] OTHER -> <<>>

\* the texts environment expansion reads or writes
Templates ==
    {"name: $USER", "name: XFox", "{ \"name\": \"$USER\" }", "{ \"name\": \"XFox\" }"}

\* String::from of a character sequence: the text with these characters
Text(cs) == CHOOSE t \in Templates : Chars(t) = cs

\* ------------------------------------------------------- expand_env_vars
\* ::std::env::var : Ok(value), Err(NotPresent) or Err(NotUnicode)
RECURSIVE EnvVarOf(_, _)
EnvVarOf(e, name) ==
    IF e = <<>> THEN [kind |-> "NotPresent", value |-> <<>>]
    ELSE IF Head(e).name = name THEN [kind |-> Head(e).kind, value |-> Head(e).value]
    ELSE EnvVarOf(Tail(e), name)

\* char::is_alphanumeric or '_'
NameChars == Alphanumeric \cup {"_"}

\* a name that ends after its first character
NameEndOneChar(input, i) ==
    IF i <= Len(input) /\ input[i] \in NameChars THEN i + 1 ELSE i

\* the inner `while let Some(&next_ch) = chars.peek()` loop: where var_name ends
NameEnd(input, i) == RunEnd(input, i, NameChars)

ExpandOk(value) == [ok |-> TRUE, value |-> value]
ExpandErr == [ok |-> FALSE, value |-> NoneOpt]

\* the outer `while let Some(ch) = chars.next()` loop from character i on
RECURSIVE ExpandFrom(_, _, _, _)

\* the `match ::std::env::var(&var_name)` for the name input[i+1 .. end-1]
ExpandVar(input, i, end, acc, e) ==
    CASE EnvVarOf(e, SubSeq(input, i + 1, end - 1)).kind = "Ok" ->
           ExpandFrom(input, end,
                      [result |-> acc.result
                                   \o EnvVarOf(e, SubSeq(input, i + 1, end - 1)).value,
                       expanded |-> TRUE], e)
      [] EnvVarOf(e, SubSeq(input, i + 1, end - 1)).kind = "NotPresent" ->
           ExpandFrom(input, end,
                      [acc EXCEPT !.result = @ \o <<"$">> \o SubSeq(input, i + 1, end - 1)],
                      e)
      [] OTHER -> ExpandErr

ExpandFrom(input, i, acc, e) ==
    IF i > Len(input)
    THEN ExpandOk(IF acc.expanded THEN Some(acc.result) ELSE NoneOpt)
    ELSE IF input[i] = "$"
         THEN IF NameEnd(input, i + 1) = i + 1
              THEN ExpandFrom(input, i + 1, [acc EXCEPT !.result = Append(@, "$")], e)
              ELSE ExpandVar(input, i, NameEnd(input, i + 1), acc, e)
         ELSE ExpandFrom(input, i + 1, [acc EXCEPT !.result = Append(@, input[i])], e)

\* expand_env_vars
ExpandEnvVars(input, e) ==
    ExpandFrom(input, 1, [result |-> <<>>, expanded |-> FALSE], e)

\* ------------------------------------------------------ default providers
ProviderKinds == {"TestDefaultsProvider", "EnvProvider"}

\* DefaultProvider::name
ProviderName(provider) == provider

Applied(d) == [ok |-> TRUE, defaults |-> d, source |-> ""]
ApplyFailed(d, source) == [ok |-> FALSE, defaults |-> d, source |-> source]

\* the body of EnvProvider's loop over ::std::env::vars(), for one variable
EnvProviderVar(var, acc) ==
    IF ~acc.ok \/ var.prefix # "REQMD_" THEN acc
    ELSE CASE var.kind = "HEADER_" ->
                Applied([acc.defaults EXCEPT !.headers = Append(@, KV(var.name, var.value))])
           [] var.kind = "QUERY_" ->
                Applied([acc.defaults EXCEPT !.query = Append(@, KV(var.name, var.value))])
           [] var.kind = "SERVER" ->
                IF AddressStringFromStr(var.value) = NoneOpt
                THEN ApplyFailed(acc.defaults, "Error Parsing AddressString")
                ELSE Applied([acc.defaults EXCEPT !.server = AddressStringFromStr(var.value)[1]])
           [] OTHER -> acc

RECURSIVE EnvProviderVars(_, _)
EnvProviderVars(variables, acc) ==
    IF variables = <<>> THEN acc
    ELSE EnvProviderVars(Tail(variables), EnvProviderVar(Head(variables), acc))

\* DefaultProvider::apply_global_defaults of the provider implementations
ApplyGlobalDefaults(provider, e, d) ==
    IF provider = "TestDefaultsProvider"
    THEN Applied([d EXCEPT !.headers = Append(@, KV("X-Test-Default", "DefaultValue"))])
    ELSE EnvProviderVars(e, Applied(d))

\* ------------------------------------------------------ factory processors
ProcessorKinds == {"TestFactoryProcessor", "YamlAsJsonProcessor"}

\* FactoryProcessor::name
ProcessorName(processor) ==
    IF processor = "EnvVarExpansion" THEN "EnvVarExpander" ELSE processor

Updated(r) == [ok |-> TRUE, request |-> r, source |-> ""]
UpdateFailed(r, source) == [ok |-> FALSE, request |-> r, source |-> source]

BodyLangIsYaml(d) ==
    /\ d.body.lang # NoneOpt
    /\ \/ EqIgnoreAsciiCase(d.body.lang[1], "yaml")
       \/ EqIgnoreAsciiCase(d.body.lang[1], "yml")

\* str::split_whitespace on the block-meta strings the model uses
SplitWhitespace(s) ==
    CASE s = "http-body send-as-json" -> <<"http-body", "send-as-json">>
      [] s = "" -> <<>>
      [] OTHER -> <<s>>

AsJsonMetaFound(d) ==
    /\ d.body.meta # NoneOpt
    /\ \E t \in 1..Len(SplitWhitespace(d.body.meta[1])) :
          EqIgnoreAsciiCase(SplitWhitespace(d.body.meta[1])[t], "send-as-json")

\* serde_saphyr::from_str followed by serde_json::to_string_pretty
YamlToPrettyJson(text) ==
    CASE text = "name: XFox" -> Some("{ \"name\": \"XFox\" }")
      [] text = "name: $USER" -> Some("{ \"name\": \"$USER\" }")
      [] OTHER -> NoneOpt

\* a conversion that reads the body of the request in progress
YamlSourceInProgress(d, r) == r.body

\* `data.body.content` : what YamlAsJsonProcessor converts
YamlSource(d, r) == d.body.content

\* ::std::env::vars as ::std::env::var sees them
OsEnv(e) ==
    [i \in 1..Len(e) |->
        OsVar(Chars(e[i].prefix) \o Chars(e[i].kind) \o Chars(e[i].name), "Ok",
              Chars(e[i].value))]

\* expand_env_vars of a text of the request; the texts outside Templates hold
\* no `$`, so nothing of them expands
ExpandText(s, e) ==
    IF s \in Templates THEN ExpandEnvVars(Chars(s), e) ELSE ExpandOk(NoneOpt)

\* `if let Some(expanded) = expand_env_vars(..)? { field = expanded }`
Expanded(s, e) ==
    IF ExpandText(s, e).value = NoneOpt THEN s ELSE Text(ExpandText(s, e).value[1])

ExpandedPairs(kvs, e) ==
    [i \in 1..Len(kvs) |-> KV(Expanded(kvs[i].key, e), Expanded(kvs[i].value, e))]

\* no `?` of EnvVarExpansion::update_request returns early
ExpandsOk(r, e) ==
    /\ \A i \in 1..Len(r.headers) :
          ExpandText(r.headers[i].value, e).ok /\ ExpandText(r.headers[i].key, e).ok
    /\ \A i \in 1..Len(r.query) :
          ExpandText(r.query[i].value, e).ok /\ ExpandText(r.query[i].key, e).ok
    /\ ExpandText(r.path, e).ok
    /\ r.body.kind = "Text" => ExpandText(r.body.text, e).ok

\* FactoryProcessor::update_request of the processor implementations, in a
\* process whose environment is e
UpdateRequest(processor, d, r, e) ==
    CASE processor = "TestFactoryProcessor" ->
           IF d.title # NoneOpt
           THEN Updated([r EXCEPT !.headers = Append(@, KV("X-Test-Title", d.title[1]))])
           ELSE Updated(r)
      [] processor = "EnvVarExpansion" ->
           IF ~ExpandsOk(r, OsEnv(e)) THEN UpdateFailed(r, "VarError")
           ELSE Updated([r EXCEPT !.headers = ExpandedPairs(@, OsEnv(e)),
                                  !.query = ExpandedPairs(@, OsEnv(e)),
                                  !.path = Expanded(@, OsEnv(e)),
                                  !.body = IF @.kind = "Text"
                                           THEN BodyText(Expanded(@.text, OsEnv(e)))
                                           ELSE @])
      [] OTHER ->
           IF ~(BodyLangIsYaml(d) /\ AsJsonMetaFound(d)) THEN Updated(r)
           ELSE IF YamlSource(d, r).kind # "Text" THEN Updated(r)
           ELSE IF YamlToPrettyJson(YamlSource(d, r).text) = NoneOpt
                THEN UpdateFailed(r, "invalid yaml")
                ELSE Updated([r EXCEPT !.body =
                                 BodyText(YamlToPrettyJson(YamlSource(d, r).text)[1])])

\* ------------------------------------------------------------ build values
\* GlobalHttpDefaults::factory : the request every builder starts from
DefaultsFactory(d) ==
    [address |-> d.server.address, method |-> "Get", path |-> "/",
     query |-> d.query, headers |-> d.headers, body |-> BodyNone]

\* a builder that goes on from the request built last, when there is one
BuilderFromLast(skeleton, last) == IF last = NoneOpt THEN skeleton ELSE last[1]

\* RequestFactory::builder: a builder over a clone of the factory's request,
\* whatever request was built last
Builder(skeleton, last) == skeleton

\* the builder chain of build_requests, from `.method(..)` to `.build()`
BuildRequest(skeleton, d) ==
    [skeleton EXCEPT !.method = d.method,
                     !.path = d.path,
                     !.headers = HeadersInsertMany(@, d.headers),
                     !.query = QueryInsertMany(@, d.query),
                     !.body = d.body.content]

MdRequest(r, d) ==
    [request |-> r, title |-> d.title, description |-> d.description, data |-> d]

NoError == [kind |-> "none"]
Pending == [status |-> "none", error |-> NoError, list |-> <<>>]
Ok(list) == [status |-> "Ok", error |-> NoError, list |-> list]

\* an error return that hands the requests built so far to the caller
BuildFailedPartial(error, partial) == [status |-> "Err", error |-> error, list |-> partial]

\* Err(..) of build_requests: the local `requests` is dropped
BuildFailed(error, partial) == [status |-> "Err", error |-> error, list |-> <<>>]

\* the error naming the first registered provider instead of the failing one
DefaultProviderErrorFirst(providers, k, source) ==
    [kind |-> "DefaultProvider", provider |-> ProviderName(providers[1]), source |-> source]

\* Error::DefaultProvider built by the map_err of the provider loop
DefaultProviderError(providers, k, source) ==
    [kind |-> "DefaultProvider", provider |-> ProviderName(providers[k]), source |-> source]

\* Error::FactoryProcessor built by the map_err of the processor loop
FactoryProcessorError(processors, k, d, source) ==
    [kind |-> "FactoryProcessor", processor |-> ProcessorName(processors[k]), source |-> source]

\* the provider loop walking the vector from its end
ProviderOrderReversed(n, k) == n + 1 - k

\* `for provider in &self.default_providers` : the k-th iteration's element
ProviderOrder(n, k) == k

\* the processor loop walking the vector from its end
ProcessorOrderReversed(n, k) == n + 1 - k

\* `for processor in &self.factory_processors` : the k-th iteration's element
ProcessorOrder(n, k) == k

\* build_requests without its early return
IsEmptyDocumentNever(f) == FALSE

\* `file.document().requests.is_empty()`
IsEmptyDocument(f) == f.document.requests = <<>>

\* inserting at the front instead of pushing at the back
PushRequestsFront(list, item) == <<item>> \o list

\* `requests.push(..)`
PushRequests(list, item) == Append(list, item)

\* `file.document().meta.http.clone()`
CloneDefaults(f) == f.document.meta.http

\* the provider working on the document's own defaults (no clone)
ProviderOutcomeAliased(f, d, provider, e) ==
    LET r == ApplyGlobalDefaults(provider, e, d)
    IN  [ok |-> r.ok, source |-> r.source,
         file |-> [f EXCEPT !.document.meta.http = r.defaults],
         defaults |-> r.defaults]

\* what one provider invocation leaves behind: the File and the clone
ProviderOutcome(f, d, provider, e) ==
    LET r == ApplyGlobalDefaults(provider, e, d)
    IN  [ok |-> r.ok, source |-> r.source, file |-> f, defaults |-> r.defaults]

Call(stage, d, p) == [stage |-> stage, d |-> d, p |-> p]

Doc == file[1].document

\* ------------------------------------------------------- concurrent builds
Threads == {1, 2}

App(providers, processors, e) ==
    [default_providers |-> providers, factory_processors |-> processors, env |-> e]

Apps ==
    { App(ps, <<"TestFactoryProcessor", "YamlAsJsonProcessor">>, e) :
        ps \in { <<"TestDefaultsProvider">>, <<"EnvProvider", "TestDefaultsProvider">> },
        e \in EnvSet }

\* the process environments of the command line: USER set, and not
CliEnvSet == { <<EnvVar("", "", "USER", "XFox")>>, <<>> }

\* the application `main` builds, and the one with its processors swapped
CliApps ==
    { App(<<"EnvProvider">>, ps, e) :
        ps \in { <<"EnvVarExpansion", "YamlAsJsonProcessor">>,
                 <<"YamlAsJsonProcessor", "EnvVarExpansion">> },
        e \in CliEnvSet }

\* the Files two builds share
SharedFiles ==
    { File(g, ks) : g \in GlobalHttpDefaultsSet,
                    ks \in { <<>>, <<"widget">>, <<"sample", "widget">>,
                             <<"widget", "broken">> } }

\* the Files with a body that names an environment variable
TemplatedFiles ==
    { File(GlobalHttpDefaultsDefault, ks) : ks \in { <<"templated">>, <<"widget", "templated">> } }

\* an application and the File its builds are given
Given(a, f) == [app |-> a, file |-> f]

Givens ==
    { Given(a, f) : a \in Apps, f \in SharedFiles }
        \cup { Given(a, f) : a \in CliApps, f \in TemplatedFiles }

\* the locals of one build_requests call
Local(pc_, defaults_, init_, requests_, data_, request_, pidx_, result_) ==
    [pc |-> pc_, defaults |-> defaults_, init |-> init_, requests |-> requests_,
     data |-> data_, request |-> request_, pidx |-> pidx_, result |-> result_]

\* a thread that has not called build_requests yet
NotStarted ==
    Local("idle", GlobalHttpDefaultsDefault, DefaultsFactory(GlobalHttpDefaultsDefault),
          <<>>, 0, NoneOpt, 0, Pending)

\* ------------------------------------------------------------------- Init
InitFactory ==
    /\ env \in (IF api = "factory" THEN EnvSet ELSE {<<>>})
    /\ default_providers = <<>>
    /\ factory_processors = <<>>
    /\ file = NoneOpt
    /\ pc = "idle"
    /\ defaults = GlobalHttpDefaultsDefault
    /\ init = DefaultsFactory(GlobalHttpDefaultsDefault)
    /\ requests = <<>>
    /\ data = 0
    /\ request = NoneOpt
    /\ pidx = 0
    /\ result = Pending
    /\ calls = <<>>
    /\ handed = <<>>

InitExtract ==
    /\ children = <<>>
    /\ iter = 0
    /\ prior_heading = NoneOpt
    /\ data_set = <<>>
    /\ origins = <<>>
    /\ visited = <<>>
    /\ xpc = "idle"
    /\ collected = Pending

InitParse ==
    /\ block \in (IF api = "parse" THEN Blocks ELSE {BlockDefault})
    /\ parsed = NoneOpt

InitMeta ==
    /\ root \in (IF api = "meta" THEN RootsSet ELSE {<<>>})
    /\ metadata = NoneOpt

InitAlgebra ==
    /\ ranges \in (IF api = "position"
                   THEN { Ranges(a, b, c) : a \in PositionsSet, b \in PositionsSet,
                                            c \in PositionsSet }
                   ELSE { Ranges(PositionAt(0), PositionAt(0), PositionAt(0)) })
    /\ algebra = NoneOpt

InitExpand ==
    /\ environ \in (IF api = "expand" THEN Environs ELSE {<<>>})
    /\ input_str \in (IF api = "expand" THEN Texts ELSE {<<>>})
    /\ expansion = NoneOpt

InitConcurrent ==
    /\ \E g \in (IF api = "concurrent" THEN Givens
                 ELSE {Given(App(<<>>, <<>>, <<>>), File(GlobalHttpDefaultsDefault, <<>>))}) :
          app = g.app /\ given = g.file
    /\ shared = given
    /\ builds = [t \in Threads |-> NotStarted]
    /\ overlap = FALSE

InitPoints ==
    /\ points \in (IF api = "point" THEN { Pair(p, q) : p \in PointsSet, q \in PointsSet }
                   ELSE { Pair(Point(0, 0, 0), Point(0, 0, 0)) })
    /\ compared = NoneOpt

InitSelect ==
    /\ md_requests \in (IF api = "select" THEN Lists ELSE {<<>>})
    /\ selected = NoneOpt

Init ==
    /\ api \in {"factory", "extract", "parse", "meta", "position", "select", "expand",
                "concurrent", "point"}
    /\ InitFactory
    /\ InitExtract
    /\ InitParse
    /\ InitMeta
    /\ InitAlgebra
    /\ InitSelect
    /\ InitExpand
    /\ InitConcurrent
    /\ InitPoints

\* ------------------------------------------------- Factory: registration
\* Factory::register_default_provider (ReqmdAppBuilder::provider)
RegisterDefaultProvider(provider) ==
    /\ api = "factory" /\ pc = "idle" /\ file = NoneOpt
    /\ Len(default_providers) < MaxProviders
    /\ default_providers' = Append(default_providers, provider)
    /\ UNCHANGED <<api, uvars, env, factory_processors, file, pc, defaults, init, requests,
                   data, request, pidx, result, calls, handed, xvars, pvars, mvars, avars>>

\* Factory::register_factory_processor (ReqmdAppBuilder::processor)
RegisterFactoryProcessor(processor) ==
    /\ api = "factory" /\ pc = "idle" /\ file = NoneOpt
    /\ Len(factory_processors) < MaxProcessors
    /\ factory_processors' = Append(factory_processors, processor)
    /\ UNCHANGED <<api, uvars, env, default_providers, file, pc, defaults, init, requests,
                   data, request, pidx, result, calls, handed, xvars, pvars, mvars, avars>>

\* ------------------------------------------------ Factory::build_requests
\* entry: the early return on an empty document, else the two `let mut`
BuildRequestsEnter ==
    /\ api = "factory" /\ pc = "idle"
    /\ \E f \in Files :
        /\ file = NoneOpt \/ file = Some(f)
        /\ file' = Some(f)
        /\ IF IsEmptyDocument(f)
           THEN /\ result' = Ok(<<>>)
                /\ pc' = "idle"
                /\ pidx' = 0
                /\ defaults' = GlobalHttpDefaultsDefault
           ELSE /\ result' = Pending
                /\ pc' = "providers"
                /\ pidx' = 1
                /\ defaults' = CloneDefaults(f)
    /\ calls' = <<>>
    /\ handed' = <<>>
    /\ request' = NoneOpt
    /\ requests' = <<>>
    /\ init' = DefaultsFactory(GlobalHttpDefaultsDefault)
    /\ data' = 0
    /\ UNCHANGED <<api, uvars, env, default_providers, factory_processors, xvars, pvars, mvars, avars>>

\* one iteration of the provider loop, with its `?`
ProviderStep ==
    /\ pc = "providers" /\ pidx <= Len(default_providers)
    /\ LET k == ProviderOrder(Len(default_providers), pidx)
           out == ProviderOutcome(file[1], defaults, default_providers[k], env)
       IN  /\ calls' = Append(calls, Call("apply_global_defaults", 0, k))
           /\ handed' = Append(handed, [in |-> defaults, out |-> out.defaults, ok |-> out.ok])
           /\ file' = Some(out.file)
           /\ defaults' = out.defaults
           /\ IF out.ok
              THEN /\ pidx' = pidx + 1
                   /\ UNCHANGED <<pc, result>>
              ELSE /\ result' = BuildFailed(
                        DefaultProviderError(default_providers, k, out.source), requests)
                   /\ pc' = "idle"
                   /\ UNCHANGED pidx
    /\ UNCHANGED <<api, uvars, env, default_providers, factory_processors, init, requests,
                   data, request, xvars, pvars, mvars, avars>>

\* `let init = defaults.factory();`
DeriveSkeleton ==
    /\ pc = "providers" /\ pidx > Len(default_providers)
    /\ init' = DefaultsFactory(defaults)
    /\ calls' = Append(calls, Call("factory", 0, 0))
    /\ data' = 1
    /\ pc' = "requests"
    /\ UNCHANGED <<api, uvars, env, default_providers, factory_processors, file, defaults,
                   requests, request, pidx, result, handed, xvars, pvars, mvars, avars>>

\* head of the descriptor loop: the builder chain up to `.build()`
StartRequest ==
    /\ pc = "requests" /\ data <= Len(Doc.requests)
    /\ request' = Some(BuildRequest(Builder(init, request), Doc.requests[data]))
    /\ calls' = Append(calls, Call("build", data, 0))
    /\ pidx' = 1
    /\ pc' = "processors"
    /\ UNCHANGED <<api, uvars, env, default_providers, factory_processors, file, defaults,
                   init, requests, data, result, handed, xvars, pvars, mvars, avars>>

\* one iteration of the processor loop, with its `?`
ProcessorStep ==
    /\ pc = "processors" /\ pidx <= Len(factory_processors)
    /\ LET k == ProcessorOrder(Len(factory_processors), pidx)
           out == UpdateRequest(factory_processors[k], Doc.requests[data], request[1], env)
       IN  /\ calls' = Append(calls, Call("update_request", data, k))
           /\ IF out.ok
              THEN /\ request' = Some(out.request)
                   /\ pidx' = pidx + 1
                   /\ UNCHANGED <<pc, result>>
              ELSE /\ result' = BuildFailed(
                        FactoryProcessorError(factory_processors, k, data, out.source),
                        requests)
                   /\ pc' = "idle"
                   /\ UNCHANGED <<request, pidx>>
    /\ UNCHANGED <<api, uvars, env, default_providers, factory_processors, file, defaults,
                   init, requests, data, handed, xvars, pvars, mvars, avars>>

\* `requests.push(MdRequest { .. })` and the step to the next descriptor
PushRequest ==
    /\ pc = "processors" /\ pidx > Len(factory_processors)
    /\ requests' = PushRequests(requests, MdRequest(request[1], Doc.requests[data]))
    /\ data' = data + 1
    /\ pc' = "requests"
    /\ UNCHANGED <<api, uvars, env, default_providers, factory_processors, file, defaults,
                   init, request, pidx, result, calls, handed, xvars, pvars, mvars, avars>>

\* `Ok(MdRequestList::new(requests))`
ReturnRequests ==
    /\ pc = "requests" /\ data > Len(Doc.requests)
    /\ result' = Ok(requests)
    /\ pc' = "idle"
    /\ UNCHANGED <<api, uvars, env, default_providers, factory_processors, file, defaults,
                   init, requests, data, request, pidx, calls, handed, xvars, pvars, mvars, avars>>

\* ------------------------------- Factory::build_requests, on two threads
\* what a step of build_requests leaves behind: its locals and the File
Stepped(b, f) == [build |-> b, file |-> f]

\* entry: the early return on an empty document, else the two `let mut`
Entered(b, f) ==
    IF IsEmptyDocument(f)
    THEN Stepped([b EXCEPT !.pc = "done", !.result = Ok(<<>>)], f)
    ELSE Stepped([b EXCEPT !.pc = "providers", !.pidx = 1,
                           !.defaults = CloneDefaults(f), !.requests = <<>>], f)

\* one iteration of the provider loop, with its `?`, from the outcome of the
\* provider's call
ProviderStepped(b, a, k, out) ==
    IF out.ok
    THEN Stepped([b EXCEPT !.defaults = out.defaults, !.pidx = @ + 1], out.file)
    ELSE Stepped([b EXCEPT !.defaults = out.defaults, !.pc = "done",
                           !.result = BuildFailed(
                               DefaultProviderError(a.default_providers, k, out.source),
                               b.requests)],
                 out.file)

\* one iteration of the processor loop, with its `?`, from the outcome of the
\* processor's call
ProcessorStepped(b, f, a, k, out) ==
    IF out.ok
    THEN Stepped([b EXCEPT !.request = Some(out.request), !.pidx = @ + 1], f)
    ELSE Stepped([b EXCEPT !.pc = "done",
                           !.result = BuildFailed(
                               FactoryProcessorError(a.factory_processors, k, b.data,
                                                     out.source),
                               b.requests)],
                 f)

\* the next step of build_requests for the locals b, the File f and the
\* factory and environment a
BuildStep(b, f, a) ==
    CASE b.pc = "idle" -> Entered(b, f)
      [] b.pc = "providers" /\ b.pidx <= Len(a.default_providers) ->
           ProviderStepped(b, a, ProviderOrder(Len(a.default_providers), b.pidx),
               ProviderOutcome(f, b.defaults,
                   a.default_providers[ProviderOrder(Len(a.default_providers), b.pidx)],
                   a.env))
      [] b.pc = "providers" /\ b.pidx > Len(a.default_providers) ->
           Stepped([b EXCEPT !.init = DefaultsFactory(b.defaults), !.data = 1,
                             !.pc = "requests"], f)
      [] b.pc = "requests" /\ b.data <= Len(f.document.requests) ->
           Stepped([b EXCEPT !.request =
                                 Some(BuildRequest(Builder(b.init, b.request),
                                                   f.document.requests[b.data])),
                             !.pidx = 1, !.pc = "processors"], f)
      [] b.pc = "processors" /\ b.pidx <= Len(a.factory_processors) ->
           ProcessorStepped(b, f, a, ProcessorOrder(Len(a.factory_processors), b.pidx),
               UpdateRequest(
                   a.factory_processors[ProcessorOrder(Len(a.factory_processors), b.pidx)],
                   f.document.requests[b.data], b.request[1], a.env))
      [] b.pc = "processors" /\ b.pidx > Len(a.factory_processors) ->
           Stepped([b EXCEPT !.requests =
                                 PushRequests(@, MdRequest(b.request[1],
                                                           f.document.requests[b.data])),
                             !.data = @ + 1, !.pc = "requests"], f)
      [] b.pc = "requests" /\ b.data > Len(f.document.requests) ->
           Stepped([b EXCEPT !.result = Ok(b.requests), !.pc = "done"], f)
      [] OTHER -> Stepped(b, f)

\* thread t takes the step `out`
Advance(t, out) ==
    /\ builds' = [builds EXCEPT ![t] = out.build]
    /\ shared' = out.file
    /\ overlap' = (overlap \/ \E u \in Threads \ {t} : builds[u].pc \notin {"idle", "done"})
    /\ UNCHANGED <<api, fvars, xvars, pvars, mvars, avars, svars, evars, qvars, app, given>>

ThreadEnter(t) ==
    /\ api = "concurrent" /\ builds[t].pc = "idle"
    /\ Advance(t, BuildStep(builds[t], shared, app))

ThreadProviderStep(t) ==
    /\ builds[t].pc = "providers" /\ builds[t].pidx <= Len(app.default_providers)
    /\ Advance(t, BuildStep(builds[t], shared, app))

ThreadDeriveSkeleton(t) ==
    /\ builds[t].pc = "providers" /\ builds[t].pidx > Len(app.default_providers)
    /\ Advance(t, BuildStep(builds[t], shared, app))

ThreadStartRequest(t) ==
    /\ builds[t].pc = "requests" /\ builds[t].data <= Len(shared.document.requests)
    /\ Advance(t, BuildStep(builds[t], shared, app))

ThreadProcessorStep(t) ==
    /\ builds[t].pc = "processors" /\ builds[t].pidx <= Len(app.factory_processors)
    /\ Advance(t, BuildStep(builds[t], shared, app))

ThreadPushRequest(t) ==
    /\ builds[t].pc = "processors" /\ builds[t].pidx > Len(app.factory_processors)
    /\ Advance(t, BuildStep(builds[t], shared, app))

ThreadReturnRequests(t) ==
    /\ builds[t].pc = "requests" /\ builds[t].data > Len(shared.document.requests)
    /\ Advance(t, BuildStep(builds[t], shared, app))

ConcurrentNext ==
    \E t \in Threads :
        \/ ThreadEnter(t)
        \/ ThreadProviderStep(t)
        \/ ThreadDeriveSkeleton(t)
        \/ ThreadStartRequest(t)
        \/ ThreadProcessorStep(t)
        \/ ThreadPushRequest(t)
        \/ ThreadReturnRequests(t)

\* ------------------------------------------------------- position algebra
\* Ord for Point: by byte offset
PointLt(a, b) == a.offset < b.offset

\* an extend whose start is always the other range's start
ExtendStartOverwritten(self, other) ==
    [start |-> other.start,
     end |-> IF PointLt(self.end, other.end) THEN other.end ELSE self.end]

\* an extend that only ever moves the end
ExtendEndOnly(self, other) ==
    [start |-> self.start,
     end |-> IF PointLt(self.end, other.end) THEN other.end ELSE self.end]

\* Position::extend
Extend(self, other) ==
    [start |-> IF PointLt(other.start, self.start) THEN other.start ELSE self.start,
     end |-> IF PointLt(self.end, other.end) THEN other.end ELSE self.end]

\* ranges that touch counted as exclusive
ExclusiveWithTouching(self, other) ==
    ~PointLt(self.start, other.end) \/ ~PointLt(other.start, self.end)

\* Position::exclusive_with
ExclusiveWith(self, other) ==
    PointLt(other.end, self.start) \/ PointLt(self.end, other.start)

\* Position::range_between
RangeBetween(self, other) ==
    IF ExclusiveWith(self, other)
    THEN IF PointLt(self.end, other.start)
         THEN Some([lo |-> self.end.offset, hi |-> other.start.offset])
         ELSE Some([lo |-> other.end.offset, hi |-> self.start.offset])
    ELSE NoneOpt

\* ------------------------------------------------------------ mdast nodes
NodeKinds == {"heading", "heading_nopos", "paragraph", "http", "http_bad",
              "http_nopos", "json", "json_nopos", "nolang"}

MdNode(type, lang, meta, value, position) ==
    [type |-> type, lang |-> lang, meta |-> meta, value |-> value, position |-> position]

\* the source text of a heading that is the i-th child of the root
HeadingText(i) == IF i % 2 = 1 THEN "# Post Widgets" ELSE "## List Widgets"

\* the i-th child of the root; the parser gives it the source span PositionAt(i)
Node(kind, i) ==
    CASE kind = "heading" -> MdNode("Heading", NoneOpt, NoneOpt, HeadingText(i), Some(PositionAt(i)))
      [] kind = "heading_nopos" -> MdNode("Heading", NoneOpt, NoneOpt, "# Post Widgets", NoneOpt)
      [] kind = "paragraph" -> MdNode("Paragraph", NoneOpt, NoneOpt, "I've often wondered", Some(PositionAt(i)))
      [] kind = "http" -> MdNode("Code", Some("http"), NoneOpt, "POST /widgets", Some(PositionAt(i)))
      [] kind = "http_bad" -> MdNode("Code", Some("http"), NoneOpt, "FETCH /widgets", Some(PositionAt(i)))
      [] kind = "http_nopos" -> MdNode("Code", Some("http"), NoneOpt, "POST /widgets", NoneOpt)
      [] kind = "json" -> MdNode("Code", Some("json"), Some("http-body"), "{}", Some(PositionAt(i)))
      [] kind = "json_nopos" -> MdNode("Code", Some("json"), Some("http-body"), "{}", NoneOpt)
      [] OTHER -> MdNode("Code", NoneOpt, NoneOpt, "plain", Some(PositionAt(i)))

ChildrenSet ==
    { [i \in 1..Len(ks) |-> Node(ks[i], i)] : ks \in SeqsUpTo(NodeKinds, MaxChildren) }

\* is_http_code
IsHttpCode(code) == code.lang = Some("http")

HttpDataDefault ==
    [title |-> NoneOpt, description |-> NoneOpt, method |-> "Get", path |-> "/",
     query |-> <<>>, headers |-> <<>>,
     body |-> BodyData(BodyNone, NoneOpt, NoneOpt, NoneOpt),
     position |-> Position(Point(0, 0, 0), Point(0, 0, 0))]

\* ------------------------------------------------- http_data::parser
Spaces == {" ", "\t"}

\* is_a("-._~!$&'()*+,;=:/@") with alphanumeric1
PathChars ==
    Alphanumeric \cup {"-", ".", "_", "~", "!", "$", "&", "'", "(", ")", "*",
                       "+", ",", ";", "=", ":", "/", "@"}

\* is_a("@!\"'$%^*_-+()<>[]{}/|;`.") with alphanumeric1 (the backquote, which
\* no block text of the model holds, is left out)
QueryChars ==
    Alphanumeric \cup {"@", "!", "\"", "'", "$", "%", "^", "*", "_", "-", "+",
                       "(", ")", "<", ">", "[", "]", "{", "}", "/", "|", ";",
                       "."}

\* the characters a backslash may precede inside char_group
Escapable == {" ", "=", "&", "?", "\\"}

HeaderKeyChars == Alphanumeric \cup {"-", "_"}

\* is_a(" @!:\"#$%^&*()_-+={}[]|;'<>,.?/`~") with alphanumeric1 (again without
\* the backquote)
HeaderValueChars ==
    Alphanumeric \cup {" ", "@", "!", ":", "\"", "#", "$", "%", "^", "&", "*",
                       "(", ")", "_", "-", "+", "=", "{", "}", "[", "]", "|",
                       ";", "'", "<", ">", ",", ".", "?", "/", "~"}

\* IResult: Err(Error), or Ok((rest, value)) with rest = input from `pos`
PErr == [ok |-> FALSE, pos |-> 0, value |-> <<>>]
POk(pos, value) == [ok |-> TRUE, pos |-> pos, value |-> value]

At(input, i) == IF i <= Len(input) THEN input[i] ELSE ""

\* recognize(many1_count(..)): the text from i up to e, an error when empty
Recognize(input, i, e) == IF e = i THEN PErr ELSE POk(e, SubSeq(input, i, e - 1))

\* recognize(many1_count(..)) over one character class
Run1(input, i, class) == Recognize(input, i, RunEnd(input, i, class))

\* FromStr for Method
MethodFromStr(word) ==
    CASE word = <<"G", "E", "T">> -> Some("Get")
      [] word = <<"P", "O", "S", "T">> -> Some("Post")
      [] word = <<"P", "U", "T">> -> Some("Put")
      [] word = <<"D", "E", "L", "E", "T", "E">> -> Some("Delete")
      [] word = <<"P", "A", "T", "C", "H">> -> Some("Patch")
      [] word = <<"H", "E", "A", "D">> -> Some("Head")
      [] word = <<"C", "O", "N", "N", "E", "C", "T">> -> Some("Connect")
      [] word = <<"O", "P", "T", "I", "O", "N", "S">> -> Some("Options")
      [] word = <<"T", "R", "A", "C", "E">> -> Some("Trace")
      [] OTHER -> NoneOpt

\* http_method
HttpMethodParser(input, i) ==
    LET w == Run1(input, i, Alpha)
    IN  IF w.ok /\ MethodFromStr(w.value) # NoneOpt
        THEN POk(w.pos, MethodFromStr(w.value)[1])
        ELSE PErr

\* http_path
HttpPathParser(input, i) == Run1(input, i, PathChars)

\* space1
Space1(input, i) == Run1(input, i, Spaces)

\* where the run of char_group items (a plain character, or a backslash and
\* the character it escapes) starting at i ends
RECURSIVE CharGroupEnd(_, _)
CharGroupEnd(input, i) ==
    IF At(input, i) \in QueryChars THEN CharGroupEnd(input, i + 1)
    ELSE IF At(input, i) = "\\" /\ At(input, i + 1) \in Escapable
         THEN CharGroupEnd(input, i + 2)
         ELSE i

\* http_query_string::char_group: `recognize` yields the matched text itself
CharGroup(input, i) == Recognize(input, i, CharGroupEnd(input, i))

\* target_value's first and third alternatives over the char_group g
FirstOrThird(input, g) ==
    IF ~g.ok THEN PErr
    ELSE IF At(input, g.pos) = "&" THEN POk(g.pos + 1, g.value)
    ELSE g

\* target_value without its second alternative
TargetValueOneLine(input, i) == FirstOrThird(input, CharGroup(input, i))

\* target_value's second alternative over the char_group g and the space1
\* after the newline, else the third
SecondOrThird(input, g, sp) ==
    IF At(input, g.pos) = "\n" /\ sp.ok /\ At(input, sp.pos) = "&"
    THEN POk(sp.pos + 1, g.value)
    ELSE g

\* target_value's three alternatives in order over the char_group g
Alternatives(input, g) ==
    IF ~g.ok THEN PErr
    ELSE IF At(input, g.pos) = "&" THEN POk(g.pos + 1, g.value)
    ELSE SecondOrThird(input, g, Space1(input, g.pos + 1))

\* http_query_string::target_value
TargetValue(input, i) == Alternatives(input, CharGroup(input, i))

\* the pair of a parsed key and what the value parser returned
PairOf(k, v) == IF v.ok THEN POk(v.pos, KV(k.value, v.value)) ELSE PErr

\* separated_pair over the parsed key k: tag("="), then target_value
PairAfter(input, k) ==
    IF k.ok /\ At(input, k.pos) = "="
    THEN PairOf(k, TargetValue(input, k.pos + 1))
    ELSE PErr

\* separated_pair(char_group, tag("="), target_value)
QueryPair(input, i) == PairAfter(input, CharGroup(input, i))

\* fold_many0 over the pairs, adding each to the QueryString
RECURSIVE FoldPairs(_, _, _)
FoldPairs(input, i, acc) ==
    LET r == QueryPair(input, i)
    IN  IF r.ok THEN FoldPairs(input, r.pos, Append(acc, r.value))
        ELSE POk(i, acc)

\* http_query_string
HttpQueryString(input, i) ==
    IF At(input, i) = "?" THEN FoldPairs(input, i + 1, <<>>) ELSE PErr

\* header_line over the parsed key k: tag(": "), then the value
HeaderAfter(input, k) ==
    IF k.ok /\ At(input, k.pos) = ":" /\ At(input, k.pos + 1) = " "
    THEN PairOf(k, Run1(input, k.pos + 2, HeaderValueChars))
    ELSE PErr

\* http_headers::header_line
HeaderLine(input, i) == HeaderAfter(input, Run1(input, i, HeaderKeyChars))

\* fold_many0(alt((terminated(header_line, newline), header_line)), ..)
RECURSIVE FoldHeaders(_, _, _)
FoldHeaders(input, i, acc) ==
    LET r == HeaderLine(input, i)
    IN  IF r.ok
        THEN FoldHeaders(input, IF At(input, r.pos) = "\n" THEN r.pos + 1 ELSE r.pos,
                         Append(acc, r.value))
        ELSE POk(i, acc)

\* http_headers
HttpHeaders(input, i) == FoldHeaders(input, i, <<>>)

\* `opt(preceded(newline, space1))`: where the input continues
SkipIndent(input, i) ==
    LET ind == Space1(input, i + 1)
    IN  IF At(input, i) = "\n" /\ ind.ok THEN ind.pos ELSE i

\* `opt(http_query_string)` with `unwrap_or_default`
OptQueryString(input, i) ==
    LET q == HttpQueryString(input, i)
    IN  IF q.ok THEN q ELSE POk(i, <<>>)

\* `opt(newline)`: where the input continues
SkipNewline(input, i) == IF At(input, i) = "\n" THEN i + 1 ELSE i

\* the HttpData of http_data, from what its parsers returned
HttpDataOf(m, p, q, h) ==
    POk(h.pos, [HttpDataDefault EXCEPT !.method = m.value, !.path = p.value,
                                       !.query = q.value, !.headers = h.value])

\* http_data from the query string on
AfterPath(input, m, p, q) ==
    HttpDataOf(m, p, q, HttpHeaders(input, SkipNewline(input, q.pos)))

\* http_data from the path on
AfterSpace(input, m, p) ==
    IF ~p.ok THEN PErr
    ELSE AfterPath(input, m, p, OptQueryString(input, SkipIndent(input, p.pos)))

\* http_data from the space after the method on
AfterMethod(input, m, sp) ==
    IF ~sp.ok THEN PErr ELSE AfterSpace(input, m, HttpPathParser(input, sp.pos))

\* http_data: Ok((rest, HttpData)) or Err, each `?` an early return
HttpDataFrom(input, m) ==
    IF ~m.ok THEN PErr ELSE AfterMethod(input, m, Space1(input, m.pos))

HttpDataParser(input) == HttpDataFrom(input, HttpMethodParser(input, 1))

\* parser::parse: `.finish()`, the rest of the input dropped
Finish(r) == IF r.ok THEN Some(r.value) ELSE NoneOpt

Parse(input) == Finish(HttpDataParser(input))

\* BodyData::from(Code)
BodyDataFrom(code) ==
    BodyData(BodyText(code.value), code.lang, code.meta, code.position)

\* the peek taking any code sibling, an http block included
TakesBodyAnyCode(cs, i) ==
    /\ i + 1 <= Len(cs)
    /\ cs[i + 1].type = "Code"

\* the peek of try_collect: is the next sibling taken as the body
TakesBody(cs, i) ==
    /\ i + 1 <= Len(cs)
    /\ cs[i + 1].type = "Code"
    /\ ~IsHttpCode(cs[i + 1])

\* Position::find_substring(ctx.input): the source text a node span covers
FindSubstring(cs, position) ==
    IF \E k \in 1..Len(cs) : PositionAt(k) = position
    THEN Some(cs[CHOOSE k \in 1..Len(cs) : PositionAt(k) = position].value)
    ELSE NoneOpt

\* `.trim_start_matches('#').trim()` on the heading texts the model uses
TrimTitle(text) ==
    CASE text = "# Post Widgets" -> "Post Widgets"
      [] text = "## List Widgets" -> "List Widgets"
      [] OTHER -> text

\* `ctx.input[range].trim()`: the texts of the nodes inside the byte range
\* (only whitespace separates nodes), as the sequence of those texts
InputBetween(cs, range) ==
    LET inside(k) == range.lo <= PositionAt(k).start.offset
                     /\ PositionAt(k).end.offset <= range.hi
        idx == SelectSeq([k \in 1..Len(cs) |-> k], inside)
    IN  [j \in 1..Len(idx) |-> cs[idx[j]].value]

Collected(d, takes) == [ok |-> TRUE, error |-> NoError, data |-> d, takes |-> takes]
NotCollected(kind) ==
    [ok |-> FALSE, error |-> [kind |-> kind], data |-> HttpDataDefault, takes |-> FALSE]

\* the `Node::Code(block) if is_http_code(block)` arm for child i, from the
\* result of parser::parse on
HttpArmOf(cs, i, heading, parse) ==
    IF parse = NoneOpt THEN NotCollected("Parse")
    ELSE IF cs[i].position = NoneOpt THEN NotCollected("MissingPosition")
    ELSE
    LET d0 == [parse[1] EXCEPT !.position = cs[i].position[1]]
        takes == TakesBody(cs, i)
    IN  IF takes /\ cs[i + 1].position = NoneOpt THEN NotCollected("MissingPosition")
        ELSE
        LET d1 == IF takes
                  THEN [d0 EXCEPT !.body = BodyDataFrom(cs[i + 1]),
                                  !.position = Extend(@, cs[i + 1].position[1])]
                  ELSE d0
        IN  IF heading = NoneOpt THEN Collected(d1, takes)
            ELSE IF cs[heading[1]].position = NoneOpt THEN NotCollected("MissingPosition")
            ELSE
            LET position == cs[heading[1]].position[1]
                sub == FindSubstring(cs, position)
                between == RangeBetween(position, d1.position)
                desc == IF between = NoneOpt THEN <<>> ELSE InputBetween(cs, between[1])
            IN  IF sub = NoneOpt THEN NotCollected("InvalidOffset")
                ELSE Collected(
                       [d1 EXCEPT !.title = Some(TrimTitle(sub[1])),
                                  !.description = IF desc = <<>> THEN NoneOpt ELSE Some(desc),
                                  !.position = Extend(@, position)],
                       takes)

\* the `Node::Code(block) if is_http_code(block)` arm for child i
HttpArm(cs, i, heading) == HttpArmOf(cs, i, heading, Parse(Chars(cs[i].value)))

\* an error return that hands the descriptors collected so far to the caller
CollectFailedPartial(error, partial) == [status |-> "Err", error |-> error, list |-> partial]

\* Err(..) of try_collect: the local `data_set` is dropped
CollectFailed(error, partial) == [status |-> "Err", error |-> error, list |-> <<>>]

\* a heading arm that keeps a heading already pending
RememberFirst(prior, i) == IF prior = NoneOpt THEN Some(i) ELSE prior

\* `prior_heading = Some(heading);`
Remember(prior, i) == Some(i)

\* a heading that stays pending after an http block used it
TakeKept(heading) == heading

\* Option::take on `prior_heading`: what is left behind
Take(heading) == NoneOpt

Origin(http, body, heading) == [http |-> http, body |-> body, heading |-> heading]

\* ------------------------------------------------- HttpData::try_collect
TryCollectEnter ==
    /\ api = "extract" /\ xpc = "idle" /\ collected = Pending
    /\ \E cs \in ChildrenSet : children' = cs
    /\ iter' = 1
    /\ prior_heading' = NoneOpt
    /\ data_set' = <<>>
    /\ origins' = <<>>
    /\ visited' = <<>>
    /\ xpc' = "loop"
    /\ UNCHANGED <<api, uvars, fvars, pvars, mvars, avars, collected>>

\* loop body, first arm: an http code block
CollectHttp ==
    /\ xpc = "loop" /\ iter <= Len(children)
    /\ children[iter].type = "Code" /\ IsHttpCode(children[iter])
    /\ LET out == HttpArm(children, iter, prior_heading)
       IN  /\ visited' = Append(visited, iter)
           /\ IF out.ok
              THEN /\ data_set' = Append(data_set, out.data)
                   /\ origins' = Append(origins,
                         Origin(iter, IF out.takes THEN Some(iter + 1) ELSE NoneOpt,
                                prior_heading))
                   /\ iter' = IF out.takes THEN iter + 2 ELSE iter + 1
                   /\ prior_heading' = Take(prior_heading)
                   /\ UNCHANGED <<xpc, collected>>
              ELSE /\ collected' = CollectFailed(out.error, data_set)
                   /\ xpc' = "idle"
                   /\ UNCHANGED <<data_set, origins, iter, prior_heading>>
    /\ UNCHANGED <<api, uvars, fvars, pvars, mvars, avars, children>>

\* loop body, second arm: a heading
CollectHeading ==
    /\ xpc = "loop" /\ iter <= Len(children)
    /\ children[iter].type = "Heading"
    /\ prior_heading' = Remember(prior_heading, iter)
    /\ visited' = Append(visited, iter)
    /\ iter' = iter + 1
    /\ UNCHANGED <<api, uvars, fvars, pvars, mvars, avars, children, data_set, origins, xpc, collected>>

\* loop body, `_ => continue`
CollectOther ==
    /\ xpc = "loop" /\ iter <= Len(children)
    /\ children[iter].type # "Heading"
    /\ ~(children[iter].type = "Code" /\ IsHttpCode(children[iter]))
    /\ visited' = Append(visited, iter)
    /\ iter' = iter + 1
    /\ UNCHANGED <<api, uvars, fvars, pvars, mvars, avars, children, prior_heading, data_set, origins, xpc, collected>>

\* `Ok(data_set)`
CollectReturn ==
    /\ xpc = "loop" /\ iter > Len(children)
    /\ collected' = Ok(data_set)
    /\ xpc' = "idle"
    /\ UNCHANGED <<api, uvars, fvars, pvars, mvars, avars, children, iter, prior_heading, data_set, origins, visited>>

\* ---------------------------------------------------------- parser::parse
\* the input http_data left unconsumed
Rest(input, r) == IF r.ok THEN SubSeq(input, r.pos, Len(input)) ELSE input

\* the result of parse, with the input http_data left unconsumed
Parsed(input) == [result |-> Parse(input), rest |-> Rest(input, HttpDataParser(input))]

ParseBlock ==
    /\ api = "parse" /\ parsed = NoneOpt
    /\ parsed' = Some(Parsed(Render(block)))
    /\ UNCHANGED <<api, uvars, fvars, xvars, mvars, avars, block>>

\* ------------------------------------------------------ MetaData::try_from
MetaData(title, description, http, position) ==
    [title |-> title, description |-> description, http |-> http, position |-> position]

MetaDataDefault ==
    MetaData(NoneOpt, NoneOpt, GlobalHttpDefaultsDefault, NoneOpt)

Deserialized(v) == [ok |-> TRUE, value |-> v]
InvalidYaml == [ok |-> FALSE, value |-> MetaDataDefault]

\* GlobalHttpDefaultsVisitor::visit_map: the three known keys, any other key
\* an unknown_field error
RECURSIVE VisitHttp(_, _)
VisitHttp(sub, acc) ==
    IF sub = <<>> THEN Some(acc)
    ELSE LET e == Head(sub)
         IN  CASE e.key = "server" ->
                    IF AddressStringFromStr(e.str) = NoneOpt THEN NoneOpt
                    ELSE VisitHttp(Tail(sub), [acc EXCEPT !.server = AddressStringFromStr(e.str)[1]])
               [] e.key = "headers" -> VisitHttp(Tail(sub), [acc EXCEPT !.headers = e.pairs])
               [] e.key = "query" -> VisitHttp(Tail(sub), [acc EXCEPT !.query = e.pairs])
               [] OTHER -> NoneOpt

\* the derived Deserialize of `Data` (serde(default), unknown fields not
\* denied): a known key fills its field, any other key is skipped
RECURSIVE VisitData(_, _)
VisitData(es, acc) ==
    IF es = <<>> THEN Deserialized(acc)
    ELSE LET e == Head(es)
         IN  CASE e.key = "title" ->
                    IF e.kind = "str"
                    THEN VisitData(Tail(es), [acc EXCEPT !.title = Some(e.str)])
                    ELSE InvalidYaml
               [] e.key = "description" ->
                    IF e.kind = "str"
                    THEN VisitData(Tail(es), [acc EXCEPT !.description = Some(e.str)])
                    ELSE InvalidYaml
               [] e.key = "http" ->
                    IF e.kind = "map" /\ VisitHttp(e.sub, GlobalHttpDefaultsDefault) # NoneOpt
                    THEN VisitData(Tail(es),
                           [acc EXCEPT !.http = VisitHttp(e.sub, GlobalHttpDefaultsDefault)[1]])
                    ELSE InvalidYaml
               [] OTHER -> VisitData(Tail(es), acc)

\* a lookup that takes the first Yaml node wherever it stands
MaybeYamlAnywhere(r) ==
    IF \E k \in 1..Len(r) : r[k].type = "Yaml"
    THEN Some(r[CHOOSE k \in 1..Len(r) : r[k].type = "Yaml"])
    ELSE NoneOpt

\* `value.root.children.first().and_then(..)`: the first child, if a Yaml node
MaybeYaml(r) ==
    IF r # <<>> /\ r[1].type = "Yaml" THEN Some(r[1]) ELSE NoneOpt

\* MetaData::try_from
MetaDataTryFrom(r) ==
    LET maybe_yaml == MaybeYaml(r)
    IN  IF maybe_yaml = NoneOpt THEN Deserialized(MetaDataDefault)
        ELSE LET d == VisitData(maybe_yaml[1].yaml, MetaDataDefault)
             IN  IF d.ok
                 THEN Deserialized([d.value EXCEPT !.position = maybe_yaml[1].position])
                 ELSE InvalidYaml

ReadMetaData ==
    /\ api = "meta" /\ metadata = NoneOpt
    /\ metadata' = Some(MetaDataTryFrom(root))
    /\ UNCHANGED <<api, uvars, fvars, xvars, pvars, avars, root>>

\* ------------------------------------- Position::range_between, ::extend
\* range_between both ways round, and extend by B and C in both orders
Algebra(r) ==
    [between_ab |-> RangeBetween(r.A, r.B),
     between_ba |-> RangeBetween(r.B, r.A),
     extend_bc |-> Extend(Extend(r.A, r.B), r.C),
     extend_cb |-> Extend(Extend(r.A, r.C), r.B)]

ApplyAlgebra ==
    /\ api = "position" /\ algebra = NoneOpt
    /\ algebra' = Some(Algebra(ranges))
    /\ UNCHANGED <<api, uvars, fvars, xvars, pvars, mvars, ranges>>

\* ------------------------------------------------ Point: PartialEq and Ord
\* #[derive(PartialEq)] on Point: every field is compared
PointEq(a, b) == a.line = b.line /\ a.column = b.column /\ a.offset = b.offset

\* Ord::cmp for Point
PointCmp(a, b) ==
    CASE a.offset < b.offset -> "Less"
      [] a.offset = b.offset -> "Equal"
      [] OTHER -> "Greater"

Compared(eq, ordering) == [eq |-> eq, cmp |-> ordering]

ComparePoints ==
    /\ api = "point" /\ compared = NoneOpt
    /\ compared' = Some(Compared(PointEq(points.p, points.q), PointCmp(points.p, points.q)))
    /\ UNCHANGED <<api, fvars, xvars, pvars, mvars, avars, svars, evars, tvars, points>>

\* ------------------------------- MdRequestList::at_line, Selection::select
\* Position::contains_line with the bounds left out of the range
ContainsLineStrict(self, line) == self.start.line < line /\ self.end.line > line

\* Position::contains_line
ContainsLine(self, line) == self.start.line <= line /\ self.end.line >= line

\* Iterator::find from element i on: the first request the closure accepts, by
\* its index in the list
RECURSIVE Find(_, _, _)
Find(reqs, i, line) ==
    IF i > Len(reqs) THEN NoneOpt
    ELSE IF ContainsLine(reqs[i].data.position, line) THEN Some(i)
    ELSE Find(reqs, i + 1, line)

\* MdRequestList::at_line
AtLine(reqs, line) == Find(reqs, 1, line)

\* Iterator::nth
IterNth(reqs, k) == IF k + 1 <= Len(reqs) THEN Some(k + 1) ELSE NoneOpt

\* Selection::select with Nth counting from zero
SelectZeroBased(selection, reqs) ==
    CASE selection.kind = "First" -> IterNth(reqs, 0)
      [] selection.kind = "Last" ->
           IF reqs = <<>> THEN NoneOpt ELSE Some(Len(reqs))
      [] selection.kind = "Line" -> AtLine(reqs, selection.n)
      [] OTHER -> IterNth(reqs, selection.n)

\* Selection::select: the request selected, by its index in the list
Select(selection, reqs) ==
    CASE selection.kind = "First" -> IterNth(reqs, 0)
      [] selection.kind = "Last" ->
           IF reqs = <<>> THEN NoneOpt ELSE Some(Len(reqs))
      [] selection.kind = "Line" -> AtLine(reqs, selection.n)
      [] OTHER -> IterNth(reqs, selection.n - 1)

Answer(op, selection, found) == [op |-> op, selection |-> selection, found |-> found]

\* a call of MdRequestList::at_line
CallAtLine ==
    /\ api = "select" /\ selected = NoneOpt
    /\ \E line \in 0..(MaxLine + 1) :
         selected' = Some(Answer("at_line", Selection("Line", line), AtLine(md_requests, line)))
    /\ UNCHANGED <<api, fvars, xvars, pvars, mvars, avars, evars, tvars, qvars, md_requests>>

\* a call of Selection::select
CallSelect ==
    /\ api = "select" /\ selected = NoneOpt
    /\ \E selection \in Selections :
         selected' = Some(Answer("select", selection, Select(selection, md_requests)))
    /\ UNCHANGED <<api, fvars, xvars, pvars, mvars, avars, evars, tvars, qvars, md_requests>>

\* ------------------------------------------- expand_env_vars, as called
Expand ==
    /\ api = "expand" /\ expansion = NoneOpt
    /\ expansion' = Some(ExpandEnvVars(input_str, environ))
    /\ UNCHANGED <<api, fvars, xvars, pvars, mvars, avars, svars, tvars, qvars, environ, input_str>>

ExtractNext ==
    \/ TryCollectEnter
    \/ CollectHttp
    \/ CollectHeading
    \/ CollectOther
    \/ CollectReturn

FactoryNext ==
    \/ \E provider \in ProviderKinds : RegisterDefaultProvider(provider)
    \/ \E processor \in ProcessorKinds : RegisterFactoryProcessor(processor)
    \/ BuildRequestsEnter
    \/ ProviderStep
    \/ DeriveSkeleton
    \/ StartRequest
    \/ ProcessorStep
    \/ PushRequest
    \/ ReturnRequests

SelectNext == CallAtLine \/ CallSelect

Next ==
    \/ FactoryNext
    \/ ExtractNext
    \/ ParseBlock
    \/ ReadMetaData
    \/ ApplyAlgebra
    \/ SelectNext
    \/ Expand
    \/ ConcurrentNext
    \/ ComparePoints

Spec == Init /\ [][Next]_vars

\* ================================================================ claims
IsApply(c) == c.stage = "apply_global_defaults"
IsUpdate(c) == c.stage = "update_request"
ProviderCalls == SelectSeq(calls, IsApply)
ProcessorCalls == SelectSeq(calls, IsUpdate)
IsPrefix(a, b) == Len(a) <= Len(b) /\ SubSeq(b, 1, Len(a)) = a
Built == file # NoneOpt

\* the update_request invocations of a build of n descriptors by m processors
ExpectedProcessorCalls(n, m) ==
    [j \in 1..(n * m) |-> Call("update_request", ((j - 1) \div m) + 1, ((j - 1) % m) + 1)]

\* C1: when no stage fails, the update_request invocations of a build are
\* exactly (d1,p1),..,(d1,pm),(d2,p1),..,(dn,pm); while the build runs the
\* invocations made so far are a prefix of that sequence.
C1_ProcessorInvocationOrder ==
    Built =>
      LET expected == ExpectedProcessorCalls(Len(Doc.requests), Len(factory_processors))
      IN  /\ IsPrefix(ProcessorCalls, expected)
          /\ (pc = "idle" /\ result.status = "Ok") => ProcessorCalls = expected

C1_Witness ==
    /\ Built /\ pc = "idle" /\ result.status = "Ok"
    /\ Len(Doc.requests) = 2 /\ Len(factory_processors) = 2
    /\ factory_processors[1] # factory_processors[2]
    /\ Len(ProcessorCalls) = 4

\* C2: in a build of a document with at least one descriptor the providers
\* are invoked in registration order, none twice, each receiving the clone
\* as the previous provider left it (the first receives the document's
\* defaults); once the skeleton is derived, a request is built or a processor
\* is invoked, every provider has been invoked exactly once, all of them
\* before that point, and the skeleton is derived from what the last
\* provider left.
C2_ProvidersOncePerBuild ==
    (Built /\ Doc.requests # <<>>) =>
      LET m == Len(default_providers)
      IN  /\ \A j \in 1..Len(ProviderCalls) : ProviderCalls[j].p = j
          /\ Len(handed) = Len(ProviderCalls)
          /\ \A j \in 1..Len(handed) :
                handed[j].in = IF j = 1 THEN Doc.meta.http ELSE handed[j - 1].out
          /\ \A j \in 1..Len(calls) :
                ~IsApply(calls[j]) =>
                    /\ j > m
                    /\ \A i \in 1..m : calls[i] = Call("apply_global_defaults", 0, i)
                    /\ Len(ProviderCalls) = m
          /\ (pc \in {"requests", "processors"} \/ result.status = "Ok") =>
                /\ Len(ProviderCalls) = m
                /\ init = DefaultsFactory(IF m = 0 THEN Doc.meta.http ELSE handed[m].out)

C2_Witness ==
    /\ Built /\ pc = "idle" /\ result.status = "Ok" /\ Doc.requests # <<>>
    /\ Len(default_providers) = 2 /\ default_providers[1] # default_providers[2]
    /\ Len(handed) = 2
    /\ handed[1].out # handed[1].in /\ handed[2].out # handed[2].in
    /\ Len(ProcessorCalls) > 0

\* C3: when the k-th provider fails, build_requests returns the
\* DefaultProvider error carrying that provider's name, no provider after k
\* is invoked, no request is built and no processor is invoked; a failed
\* provider is always the last stage of its build.
C3_ProviderFailureAborts ==
    Built =>
      /\ \A j \in 1..Len(handed) :
            ~handed[j].ok =>
                /\ j = Len(handed)
                /\ pc = "idle"
                /\ result.status = "Err"
                /\ result.error.kind = "DefaultProvider"
      /\ (result.status = "Err" /\ result.error.kind = "DefaultProvider") =>
            LET k == Len(ProviderCalls)
            IN  /\ k >= 1
                /\ ~handed[k].ok
                /\ \A j \in 1..(k - 1) : handed[j].ok
                /\ result.error.provider = ProviderName(default_providers[ProviderCalls[k].p])
                /\ ProviderCalls[k].p = k
                /\ calls = ProviderCalls
                /\ requests = <<>>
                /\ request = NoneOpt

C3_Witness ==
    /\ Built /\ result.status = "Err" /\ result.error.kind = "DefaultProvider"
    /\ Len(ProviderCalls) = 1 /\ Len(default_providers) = 2
    /\ default_providers[1] # default_providers[2]
    /\ Len(factory_processors) > 0

\* C4: when a processor fails on descriptor d, build_requests aborts (the
\* failing invocation is the last stage of the build) and the returned error
\* names the failing processor and identifies the descriptor in flight.
C4_ProcessorErrorNamesDescriptor ==
    (Built /\ result.status = "Err" /\ result.error.kind = "FactoryProcessor") =>
      LET last == calls[Len(calls)]
      IN  /\ IsUpdate(last)
          /\ last.d = data
          /\ pc = "idle"
          /\ result.error.processor = ProcessorName(factory_processors[last.p])
          /\ "descriptor" \in DOMAIN result.error
          /\ result.error.descriptor = last.d

\* C5: building and extraction are all-or-nothing: an error return of
\* build_requests carries none of the requests already built, and an error
\* return of try_collect carries none of the descriptors already collected.
C5_AllOrNothing ==
    /\ result.status = "Err" => result.list = <<>>
    /\ collected.status = "Err" => collected.list = <<>>

C5_Witness ==
    /\ Built /\ result.status = "Err" /\ result.error.kind = "FactoryProcessor"
    /\ data = 2 /\ Len(requests) = 1

\* C6: for a document without descriptors build_requests returns the empty
\* list and invokes no provider and no processor, whatever is registered.
C6_EmptyDocumentDoesNothing ==
    (Built /\ Doc.requests = <<>>) =>
      /\ pc = "idle"
      /\ result = Ok(<<>>)
      /\ calls = <<>>
      /\ handed = <<>>

C6_Witness ==
    /\ Built /\ Doc.requests = <<>> /\ result.status = "Ok"
    /\ Len(default_providers) = 2 /\ default_providers[1] = "EnvProvider"
    /\ ~ApplyGlobalDefaults("EnvProvider", env, Doc.meta.http).ok
    /\ Len(factory_processors) > 0

\* C7: no step of build_requests, successful or failed, changes the File it
\* was given, so a later build of the same File starts from the same
\* defaults.
C7_DocumentNeverMutated ==
    [][file # NoneOpt => file' = file]_vars

C7_Witness ==
    /\ Built /\ pc = "idle" /\ result.status = "Ok"
    /\ Len(handed) = 2
    /\ handed[1].in = Doc.meta.http
    /\ defaults.headers # Doc.meta.http.headers
    /\ defaults.server # Doc.meta.http.server

HeaderKeys == {"x-test-default", "X-Test-Default", "accept", "Accept", "host"}
QueryKeys == {"page", "Page"}

\* C8: before the processors run, a request's headers are the
\* provider-mutated default headers followed by the descriptor's headers
\* (likewise its query parameters), so the first match of a key present in
\* both is the default's value.
C8_DefaultsBeforeDescriptor ==
    (pc = "processors" /\ pidx = 1) =>
      LET d == Doc.requests[data]
          r == request[1]
      IN  /\ r.headers = defaults.headers \o d.headers
          /\ r.query = defaults.query \o d.query
          /\ \A k \in HeaderKeys :
                (HeadersFirst(defaults.headers, k) # NoneOpt /\ HeadersFirst(d.headers, k) # NoneOpt)
                  => HeadersFirst(r.headers, k) = HeadersFirst(defaults.headers, k)
          /\ \A k \in QueryKeys :
                (QueryFirst(defaults.query, k) # NoneOpt /\ QueryFirst(d.query, k) # NoneOpt)
                  => QueryFirst(r.query, k) = QueryFirst(defaults.query, k)

C8_Witness ==
    /\ pc = "processors" /\ pidx = 1
    /\ HeadersFirst(defaults.headers, "x-test-default") = Some("DefaultValue")
    /\ HeadersFirst(Doc.requests[data].headers, "x-test-default") = Some("own")
    /\ HeadersFirst(request[1].headers, "X-Test-Default") = Some("DefaultValue")
    /\ QueryFirst(defaults.query, "page") = Some("1")
    /\ QueryFirst(Doc.requests[data].query, "page") = Some("2")
    /\ QueryFirst(request[1].query, "page") = Some("1")

\* C9: on success the returned list has one MdRequest per descriptor and the
\* i-th carries the i-th descriptor of the document.
C9_OneRequestPerDescriptor ==
    (Built /\ pc = "idle" /\ result.status = "Ok") =>
      /\ Len(result.list) = Len(Doc.requests)
      /\ \A i \in 1..Len(result.list) :
            /\ result.list[i].data = Doc.requests[i]
            /\ result.list[i].data.position = PositionAt(i)

C9_Witness ==
    /\ Built /\ pc = "idle" /\ result.status = "Ok"
    /\ Len(result.list) = 2
    /\ result.list[1].data.path # result.list[2].data.path
    /\ result.list[2].request.body # result.list[2].data.body.content

IsHttpBlock(node) == node.type = "Code" /\ node.lang = Some("http")

\* C10: an http block takes its next sibling as body exactly when that
\* sibling is a code node whose language tag is not "http"; the sibling is
\* then never visited by the loop; otherwise the body is RequestBody::None;
\* on success there is one descriptor per http block of the root.
C10_BodyIsNextNonHttpCode ==
    /\ Len(origins) = Len(data_set)
    /\ \A j \in 1..Len(origins) :
          LET h == origins[j].http
              sibling == h + 1 <= Len(children)
                         /\ children[h + 1].type = "Code"
                         /\ children[h + 1].lang # Some("http")
          IN  /\ IsHttpBlock(children[h])
              /\ origins[j].body # NoneOpt <=> sibling
              /\ sibling =>
                    /\ origins[j].body = Some(h + 1)
                    /\ data_set[j].body.content = BodyText(children[h + 1].value)
                    /\ data_set[j].body.lang = children[h + 1].lang
                    /\ data_set[j].body.meta = children[h + 1].meta
                    /\ \A v \in 1..Len(visited) : visited[v] # h + 1
              /\ ~sibling => data_set[j].body.content = BodyNone
    /\ collected.status = "Ok" =>
          /\ collected.list = data_set
          /\ Len(collected.list) =
                Cardinality({i \in 1..Len(children) : IsHttpBlock(children[i])})

C10_Witness ==
    /\ collected.status = "Ok" /\ Len(collected.list) = 2
    /\ origins[1].body = Some(2) /\ children[2].lang = NoneOpt
    /\ collected.list[1].body.content = BodyText("plain")
    /\ origins[2].body = NoneOpt
    /\ collected.list[2].body.content = BodyNone
\* C11: a heading gives its title to at most one descriptor: a descriptor
\* whose http block has no heading between it and the previous http block
\* (a body block after that one or not) has no title and no description.
HeadingBetween(lo, hi) ==
    \E k \in (lo + 1)..(hi - 1) : children[k].type = "Heading"

C11_HeadingUsedOnce ==
    /\ Len(origins) = Len(data_set)
    /\ \A j \in 1..Len(data_set) :
         LET prev == IF j = 1 THEN 0 ELSE origins[j - 1].http
         IN  ~HeadingBetween(prev, origins[j].http) =>
               /\ data_set[j].title = NoneOpt
               /\ data_set[j].description = NoneOpt
    /\ \A i, j \in 1..Len(data_set) :
         (i # j /\ origins[i].heading # NoneOpt) => origins[i].heading # origins[j].heading

C11_Witness ==
    /\ collected.status = "Ok" /\ Len(collected.list) = 2
    /\ Len(children) = 4
    /\ children[1].type = "Heading"
    /\ origins[1] = Origin(2, Some(3), Some(1))
    /\ origins[2].http = 4
    /\ collected.list[1].title = Some("Post Widgets")
    /\ collected.list[2].title = NoneOpt

\* C12: a descriptor's range is the smallest range covering its http block,
\* its consumed body block and its consumed heading: it starts at the least
\* of their start offsets and ends at the greatest of their end offsets, so
\* it contains the http block's own range.
OriginParts(o) ==
    {children[o.http].position[1]}
      \cup (IF o.body = NoneOpt THEN {} ELSE {children[o.body[1]].position[1]})
      \cup (IF o.heading = NoneOpt THEN {} ELSE {children[o.heading[1]].position[1]})

C12_RangeCoversParts ==
    \A j \in 1..Len(data_set) :
      LET parts == OriginParts(origins[j])
          pos == data_set[j].position
          own == children[origins[j].http].position[1]
      IN  /\ \E a \in parts : pos.start = a.start
          /\ \E b \in parts : pos.end = b.end
          /\ \A a \in parts : pos.start.offset <= a.start.offset
                               /\ a.end.offset <= pos.end.offset
          /\ pos.start.offset <= own.start.offset
          /\ own.end.offset <= pos.end.offset

C12_Witness ==
    /\ collected.status = "Ok" /\ Len(collected.list) = 1
    /\ Len(children) = 4
    /\ origins[1] = Origin(3, Some(4), Some(1))
    /\ collected.list[1].position = Position(PositionAt(1).start, PositionAt(4).end)

\* a parameter text the char_group rule matches from its first to its last
\* character
MatchesCharGroup(text) == text # <<>> /\ CharGroupEnd(text, 1) = Len(text) + 1

WellFormedBlock(b) ==
    /\ MethodFromStr(b.method) # NoneOpt
    /\ \A i \in 1..Len(b.params) :
         MatchesCharGroup(b.params[i].key) /\ MatchesCharGroup(b.params[i].value)
    /\ \A i \in 1..Len(b.lines) : b.lines[i] = GoodHeaderLine

QueryAsWritten(params) ==
    [i \in 1..Len(params) |-> KV(params[i].key, params[i].value)]

ParseDone == api = "parse" /\ parsed # NoneOpt

\* C13: parse accepts a block only if the grammar consumed all of its text:
\* whenever parse returns a descriptor, no part of the block is left unparsed.
C13_ParseConsumesWholeBlock ==
    (ParseDone /\ parsed[1].result # NoneOpt) => parsed[1].rest = <<>>

\* C14: a query written with each next parameter on a new indented line that
\* starts with `&` parses to the same ordered parameter list as the same
\* query on one line, with the same method, path and headers.
C14_ContinuationEqualsOneLine ==
    (ParseDone /\ WellFormedBlock(block) /\ block.style = "amp_after_newline") =>
      LET one == Parse(Render([block EXCEPT !.style = "inline"]))
          got == parsed[1].result
      IN  /\ got # NoneOpt /\ one # NoneOpt
          /\ got[1].query = one[1].query
          /\ got[1].query = QueryAsWritten(block.params)
          /\ got[1].method = one[1].method
          /\ got[1].path = one[1].path
          /\ got[1].headers = one[1].headers
          /\ Len(got[1].headers) = Len(block.lines)

C14_Witness ==
    /\ ParseDone /\ WellFormedBlock(block) /\ block.style = "amp_after_newline"
    /\ Len(block.params) = 2 /\ block.params[1].key # block.params[2].key
    /\ Len(block.lines) = 1
    /\ Len(parsed[1].result[1].query) = 2
    /\ parsed[1].rest = <<>>

\* C15: a query written with `&` at the end of each line and the next
\* parameter on the following indented line parses to the same ordered
\* parameter list as the same query on one line.
C15_TrailingAmpEqualsOneLine ==
    (ParseDone /\ WellFormedBlock(block) /\ block.style = "amp_before_newline") =>
      LET one == Parse(Render([block EXCEPT !.style = "inline"]))
          got == parsed[1].result
      IN  /\ got # NoneOpt /\ one # NoneOpt
          /\ got[1].query = one[1].query

\* the text with every backslash that precedes space, `=`, `&` or `\` removed
RECURSIVE Unescaped(_)
Unescaped(text) ==
    IF text = <<>> THEN <<>>
    ELSE IF Head(text) = "\\" /\ Len(text) >= 2 /\ text[2] \in {" ", "=", "&", "\\"}
         THEN <<text[2]>> \o Unescaped(Tail(Tail(text)))
         ELSE <<Head(text)>> \o Unescaped(Tail(text))

\* C16: in a parsed query key or value a backslash followed by space, `=`,
\* `&` or `\` stands for that one character; the backslash is not part of
\* the parsed text.
C16_EscapeYieldsLiteral ==
    (ParseDone /\ WellFormedBlock(block) /\ block.style = "inline") =>
      /\ parsed[1].result # NoneOpt
      /\ Len(parsed[1].result[1].query) = Len(block.params)
      /\ \A i \in 1..Len(block.params) :
           /\ parsed[1].result[1].query[i].key = Unescaped(block.params[i].key)
           /\ parsed[1].result[1].query[i].value = Unescaped(block.params[i].value)

MetaDone == api = "meta" /\ metadata # NoneOpt

\* C17: a front-matter block with a top-level key other than `title`,
\* `description` or `http` fails to parse: try_from returns an error.
C17_UnknownTopLevelKeyFails ==
    (MetaDone /\ MaybeYaml(root) # NoneOpt
       /\ \E i \in 1..Len(root[1].yaml) :
            root[1].yaml[i].key \notin {"title", "description", "http"})
      => ~metadata[1].ok

\* C18: when the first child of the root is not a front-matter node (there
\* is none, or a Yaml node stands later), the metadata has no title, no
\* description and no position, and the defaults are empty headers, empty
\* query and the address http://localhost without a port.
C18_NoFrontMatterGivesDefaults ==
    (MetaDone /\ (root = <<>> \/ root[1].type # "Yaml")) =>
      /\ metadata[1].ok
      /\ metadata[1].value.title = NoneOpt
      /\ metadata[1].value.description = NoneOpt
      /\ metadata[1].value.position = NoneOpt
      /\ metadata[1].value.http.headers = <<>>
      /\ metadata[1].value.http.query = <<>>
      /\ metadata[1].value.http.server.address =
           [scheme |-> "http", host |-> "localhost", port |-> 0]

C18_Witness ==
    /\ MetaDone /\ Len(root) = 2
    /\ root[1].type = "Heading" /\ root[2].type = "Yaml"
    /\ Len(root[2].yaml) = 2
    /\ VisitData(root[2].yaml, MetaDataDefault).ok
    /\ VisitData(root[2].yaml, MetaDataDefault).value.http # GlobalHttpDefaultsDefault
    /\ metadata[1].value = MetaDataDefault

AlgebraDone == api = "position" /\ algebra # NoneOpt

\* C19: for ranges A and B with start <= end, range_between is none when
\* they overlap or touch, and otherwise the span from the end offset of the
\* earlier range to the start offset of the later one; range_between(B, A)
\* gives the same.
C19_RangeBetweenIsGap ==
    AlgebraDone =>
      LET A == ranges.A
          B == ranges.B
          apart == A.end.offset < B.start.offset \/ B.end.offset < A.start.offset
          earlier == IF A.end.offset < B.start.offset THEN A ELSE B
          later == IF A.end.offset < B.start.offset THEN B ELSE A
      IN  /\ algebra[1].between_ba = algebra[1].between_ab
          /\ IF apart
             THEN algebra[1].between_ab =
                    Some([lo |-> earlier.end.offset, hi |-> later.start.offset])
             ELSE algebra[1].between_ab = NoneOpt

C19_Witness ==
    /\ AlgebraDone
    /\ ranges.B.end.offset < ranges.A.start.offset
    /\ ranges.B.start.offset < ranges.B.end.offset
    /\ algebra[1].between_ab = Some([lo |-> 1, hi |-> 3])
    /\ ranges.C.end.offset = ranges.A.start.offset
    /\ RangeBetween(ranges.C, ranges.A) = NoneOpt

SelectDone(op) == api = "select" /\ selected # NoneOpt /\ selected[1].op = op

\* the requests of the list whose descriptor range has start.line <= n <= end.line
Holding(n) ==
    { i \in 1..Len(md_requests) : /\ md_requests[i].data.position.start.line <= n
                           /\ n <= md_requests[i].data.position.end.line }

\* C21: at_line(n) returns a request exactly when some request of the list has
\* start.line <= n <= end.line for its descriptor range, and then the first
\* such request in list order; for a line outside every range it returns none.
C21_AtLineFindsFirstHolder ==
    SelectDone("at_line") =>
        LET n == selected[1].selection.n
        IN  /\ (selected[1].found # NoneOpt) <=> (Holding(n) # {})
            /\ selected[1].found # NoneOpt =>
                  /\ selected[1].found[1] \in Holding(n)
                  /\ \A i \in Holding(n) : selected[1].found[1] <= i

\* at_line answered with the first of two requests that both hold the line,
\* on its first or last line
C21_Witness ==
    /\ SelectDone("at_line")
    /\ Len(md_requests) = 2
    /\ Holding(selected[1].selection.n) = {1, 2}
    /\ selected[1].found = Some(1)
    /\ md_requests[1].data.position.end.line = selected[1].selection.n
    /\ md_requests[1] # md_requests[2]

\* C22: select returns none for every selection that matches nothing and the
\* matching request otherwise: Nth(n) is the n-th request (counting from 1)
\* when 1 <= n <= len and none when n > len; First and Last are none on an
\* empty list; Line(n) is none when no descriptor range holds line n.
C22_SelectIsTotal ==
    SelectDone("select") =>
        LET sel == selected[1].selection
            found == selected[1].found
        IN  /\ found = NoneOpt \/ found[1] \in 1..Len(md_requests)
            /\ sel.kind = "Nth" =>
                  /\ sel.n >= 1
                  /\ found = IF sel.n <= Len(md_requests) THEN Some(sel.n) ELSE NoneOpt
            /\ sel.kind = "First" => found = IF md_requests = <<>> THEN NoneOpt ELSE Some(1)
            /\ sel.kind = "Last" =>
                  found = IF md_requests = <<>> THEN NoneOpt ELSE Some(Len(md_requests))
            /\ sel.kind = "Line" /\ Holding(sel.n) = {} => found = NoneOpt

\* Nth(2) selected the second request of a list of two
C22_Witness ==
    /\ SelectDone("select")
    /\ selected[1].selection = Selection("Nth", 2)
    /\ Len(md_requests) = 2
    /\ selected[1].found = Some(2)

ExpandDone == api = "expand" /\ expansion # NoneOpt

\* the name of the `$NAME` token whose `$` is at position p: the maximal run of
\* alphanumerics and underscores after it
TokenName(p) ==
    LET after == { q \in (p + 1)..(Len(input_str) + 1) :
                     q = Len(input_str) + 1 \/ input_str[q] \notin NameChars }
        stop == CHOOSE q \in after : \A r \in after : q <= r
    IN  SubSeq(input_str, p + 1, stop - 1)

\* the positions of the `$` of tokens (bare ones left out)
Tokens == { p \in 1..Len(input_str) : input_str[p] = "$" /\ TokenName(p) # <<>> }

VarSet(name) == \E k \in 1..Len(environ) : environ[k].name = name
VarValue(name) ==
    environ[CHOOSE k \in 1..Len(environ) :
               environ[k].name = name /\ \A j \in 1..(k - 1) : environ[j].name # name]

\* the token a name character at position p belongs to, if any
TokenOver(p) == { t \in Tokens : t < p /\ p <= t + Len(TokenName(t)) }

\* what position p of the text contributes to the expanded text
Piece(p) ==
    IF p \in Tokens
    THEN IF VarSet(TokenName(p)) THEN VarValue(TokenName(p)).value ELSE <<"$">>
    ELSE IF \E t \in TokenOver(p) : VarSet(TokenName(t)) THEN <<>>
    ELSE <<input_str[p]>>

RECURSIVE Pieces(_)
Pieces(p) == IF p > Len(input_str) THEN <<>> ELSE Piece(p) \o Pieces(p + 1)

\* C23: expansion replaces every `$NAME` token (NAME the maximal run of
\* alphanumerics/underscore) whose variable is set by its value, leaves the
\* tokens of unset variables and every bare `$` as written, reports "unchanged"
\* (no new string) when nothing was replaced, and fails only on a variable
\* whose value cannot be read as Unicode, never on an unset one.
C23_ExpansionReplacesSetTokens ==
    ExpandDone =>
        LET unreadable == \E t \in Tokens : /\ VarSet(TokenName(t))
                                             /\ VarValue(TokenName(t)).kind # "Ok"
            replaced == \E t \in Tokens : VarSet(TokenName(t))
        IN  /\ ~expansion[1].ok => unreadable
            /\ ~unreadable =>
                  /\ expansion[1].ok
                  /\ expansion[1].value = IF replaced THEN Some(Pieces(1)) ELSE NoneOpt

\* `$A/$B` with A set to `1` and B unset became `1/$B`
C23_Witness ==
    /\ ExpandDone
    /\ input_str = <<"$", "A", "/", "$", "B">>
    /\ VarSet(<<"A">>) /\ ~VarSet(<<"B">>)
    /\ expansion[1] = ExpandOk(Some(<<"1", "/", "$", "B">>))

\* build_requests run from entry to return with no other build beside it
RECURSIVE Alone(_, _, _)
Alone(b, f, a) ==
    IF b.pc = "done" THEN Stepped(b, f)
    ELSE Alone(BuildStep(b, f, a).build, BuildStep(b, f, a).file, a)

\* C24: two builds of one Document with the same factory, their steps
\* interleaved in any order, each return the list they return when run alone,
\* and the Document stays as it was handed over.
C24_ConcurrentBuildsIndependent ==
    api = "concurrent" =>
        /\ shared = given
        /\ \A t \in Threads :
              builds[t].pc = "done" =>
                  builds[t].result = Alone(NotStarted, given, app).build.result

\* both builds returned two requests after running two providers each, and
\* their steps were interleaved
C24_Witness ==
    /\ api = "concurrent"
    /\ overlap
    /\ \A t \in Threads : builds[t].pc = "done" /\ builds[t].result.status = "Ok"
    /\ Len(builds[1].result.list) = 2
    /\ Len(app.default_providers) = 2

\* the headings among the children after child lo and before child hi
HeadingsBetween(lo, hi) == { k \in (lo + 1)..(hi - 1) : children[k].type = "Heading" }

\* C25: of several headings before an http block only the last counts: the
\* title is the text of the most recent heading since the previous http block,
\* the range starts at that heading, and the other nodes between the heading
\* and the http block neither clear nor replace it.
C25_LastHeadingCounts ==
    \A j \in 1..Len(data_set) :
        LET prev == IF j = 1 THEN 0 ELSE origins[j - 1].http
            hs == HeadingsBetween(prev, origins[j].http)
            last == CHOOSE k \in hs : \A h \in hs : h <= k
        IN  hs # {} =>
              /\ origins[j].heading = Some(last)
              /\ data_set[j].title = Some(TrimTitle(children[last].value))
              /\ data_set[j].position.start = children[last].position[1].start

\* heading, heading, paragraph, http block: the descriptor has the second
\* heading's title and starts at the second heading
C25_Witness ==
    /\ collected.status = "Ok" /\ Len(collected.list) = 1
    /\ Len(children) = 4
    /\ children[1].type = "Heading" /\ children[2].type = "Heading"
    /\ children[3].type = "Paragraph"
    /\ children[1].value # children[2].value
    /\ collected.list[1].title = Some("List Widgets")
    /\ collected.list[1].position.start = PositionAt(2).start

\* a colon followed by a space somewhere in the text
HasColonSpace(value) ==
    \E i \in 1..(Len(value) - 1) : value[i] = ":" /\ value[i + 1] = " "

\* C26: the header-line grammar rejects a value that contains a colon followed
\* by a space: no block parses into a header with such a value.
C26_ColonSpaceValueRejected ==
    (ParseDone /\ parsed[1].result # NoneOpt) =>
        \A k \in 1..Len(parsed[1].result[1].headers) :
            ~HasColonSpace(parsed[1].result[1].headers[k].value)

\* C27: Point equality and Point ordering both depend on the byte offset
\* alone: Points with the same offset are equal whatever their line and
\* column, and p == q holds exactly when cmp(p, q) is Equal.
C27_EqualityByOffsetAlone ==
    (api = "point" /\ compared # NoneOpt) =>
        /\ compared[1].eq <=> (points.p.offset = points.q.offset)
        /\ compared[1].eq <=> (compared[1].cmp = "Equal")

\* the byte offsets at which a child starts or ends, and the ones next to them
Offsets ==
    UNION { { children[k].position[1].start.offset, children[k].position[1].start.offset + 1,
              children[k].position[1].end.offset - 1, children[k].position[1].end.offset } :
            k \in { i \in 1..Len(children) : children[i].position # NoneOpt } }

\* the descriptors whose range holds byte offset o
Covering(o) ==
    { j \in 1..Len(data_set) : /\ data_set[j].position.start.offset <= o
                               /\ o < data_set[j].position.end.offset }

\* C28: with the root children ordered and non-overlapping by byte offset, the
\* descriptor ranges are in document order and do not overlap: each ends at or
\* before the start of the next, so at most one of them holds any byte offset.
C28_DescriptorRangesDisjoint ==
    /\ \A j \in 1..(Len(data_set) - 1) :
          data_set[j].position.end.offset <= data_set[j + 1].position.start.offset
    /\ \A j \in 1..Len(data_set) :
          data_set[j].position.start.offset <= data_set[j].position.end.offset
    /\ \A o \in Offsets : Cardinality(Covering(o)) <= 1

\* heading, http block, body block, http block: two descriptors, the first
\* from the heading to the end of its body, the second the last block alone
C28_Witness ==
    /\ collected.status = "Ok" /\ Len(collected.list) = 2
    /\ Len(children) = 4
    /\ origins[1] = Origin(2, Some(3), Some(1))
    /\ origins[2] = Origin(4, NoneOpt, NoneOpt)
    /\ collected.list[1].position = Position(PositionAt(1).start, PositionAt(3).end)
    /\ collected.list[2].position = PositionAt(4)
    /\ Covering(PositionAt(3).end.offset - 1) = {1}
    /\ Covering(PositionAt(4).start.offset) = {2}

\* the request the registered processors, from the k-th on, make of r for the
\* descriptor d
RECURSIVE Processed(_, _, _)
Processed(r, d, k) ==
    IF k > Len(factory_processors) THEN r
    ELSE Processed(UpdateRequest(factory_processors[k], d, r, env).request, d, k + 1)

\* C29: the requests of one build are isolated from each other: each starts
\* from a fresh copy of the one skeleton derived from the defaults, so it is
\* what the processors make of skeleton + its own descriptor, whatever they
\* did to the requests of the other descriptors, and the skeleton stays as
\* derived.
C29_RequestsIsolated ==
    (api = "factory" /\ pc \in {"requests", "processors"}) =>
        /\ init = DefaultsFactory(defaults)
        /\ \A i \in 1..Len(requests) :
              requests[i].request =
                  Processed(BuildRequest(DefaultsFactory(defaults), Doc.requests[i]),
                            Doc.requests[i], 1)
        /\ (pc = "processors" /\ pidx = 1) =>
              request[1] = BuildRequest(DefaultsFactory(defaults), Doc.requests[data])

\* the second request is started while the first, already pushed, carries a
\* header a processor gave it: the second starts without it
C29_Witness ==
    /\ api = "factory" /\ pc = "processors" /\ pidx = 1 /\ data = 2
    /\ Len(requests) = 1
    /\ HeadersFirst(requests[1].request.headers, "X-Test-Title") # NoneOpt
    /\ HeadersFirst(request[1].headers, "X-Test-Title") = NoneOpt
    /\ requests[1].request # BuildRequest(init, Doc.requests[1])

\* the registration order of `main`, and the opposite one
CliOrder == <<"EnvVarExpansion", "YamlAsJsonProcessor">>
SwappedOrder == <<"YamlAsJsonProcessor", "EnvVarExpansion">>

\* USER is set to XFox in the environment of the application
UserSet == app.env = <<EnvVar("", "", "USER", "XFox")>>

\* the descriptors of the shared File whose yaml body is `name: $USER`, to
\* be sent as json
TemplatedAt ==
    { i \in 1..Len(given.document.requests) :
        /\ given.document.requests[i].body.content = BodyText("name: $USER")
        /\ BodyLangIsYaml(given.document.requests[i])
        /\ AsJsonMetaFound(given.document.requests[i]) }

\* C30: YamlAsJsonProcessor converts the descriptor's body text, not the body
\* of the request in progress.  With EnvVarExpansion registered before it, as
\* `main` does, the expansion of `$USER` is made (the body in progress reads
\* `name: XFox` when YamlAsJsonProcessor is reached) and then overwritten:
\* the final body is the json of the unexpanded text and still reads `$USER`.
\* With the two registered in the opposite order the final body is the json
\* with `$USER` replaced by its value.
C30_YamlAsJsonOverwritesExpansion ==
    (api = "concurrent" /\ UserSet) =>
        \A t \in Threads :
            /\ ( /\ app.factory_processors = CliOrder
                 /\ builds[t].pc = "processors" /\ builds[t].pidx = 2
                 /\ builds[t].data \in TemplatedAt )
                  => builds[t].request[1].body = BodyText("name: XFox")
            /\ builds[t].pc = "done" =>
                  /\ builds[t].result.status = "Ok"
                  /\ \A i \in TemplatedAt :
                        /\ app.factory_processors = CliOrder =>
                              builds[t].result.list[i].request.body
                                  = BodyText("{ \"name\": \"$USER\" }")
                        /\ app.factory_processors = SwappedOrder =>
                              builds[t].result.list[i].request.body
                                  = BodyText("{ \"name\": \"XFox\" }")

\* a build in the order of `main`, with USER set, has returned a request
\* whose descriptor's body names `$USER`: its body is the json that still
\* names it
C30_Witness ==
    /\ api = "concurrent" /\ UserSet
    /\ app.factory_processors = CliOrder
    /\ TemplatedAt = {2}
    /\ builds[1].pc = "done" /\ builds[1].result.status = "Ok"
    /\ builds[1].result.list[2].request.body = BodyText("{ \"name\": \"$USER\" }")

\* the same in the opposite order: the body carries the value of USER
C30_SwappedWitness ==
    /\ api = "concurrent" /\ UserSet
    /\ app.factory_processors = SwappedOrder
    /\ TemplatedAt = {1}
    /\ builds[2].pc = "done" /\ builds[2].result.status = "Ok"
    /\ builds[2].result.list[1].request.body = BodyText("{ \"name\": \"XFox\" }")

====
